---- MODULE Spec2Model ----
(***************************************************************************)
(* A model of the analytics core of MicrofinanceSmart:                     *)
(*   backend/services/ml_service.py      MicrofinanceML.analyze_loan_risk  *)
(*   backend/services/excel_processor.py ExcelProcessor                    *)
(* and of the routes that write loans and payments:                        *)
(*   backend/routes/client_routes.py     create_loan, make_payment         *)
(*   backend/routes/admin_routes.py      update_loan, upload_excel         *)
(*                                                                         *)
(* Numbers are exact rationals [n, d] with d > 0 in lowest terms, and the  *)
(* three floats that are no number: inf = [1, 0], -inf = [-1, 0] and       *)
(* nan = [0, 0].  Python's float arithmetic is modelled without its        *)
(* rounding.  Text (column names, agent names, dictionary keys built by    *)
(* formatting) is a sequence of one-character strings, so that lower(),    *)
(* `in`, replace() and string order are computed, not assumed.             *)
(***************************************************************************)
EXTENDS Integers, Sequences, FiniteSets, TLC

VARIABLES
    loan_data,     \* the argument of the last analyze_loan_risk call
    risk_result,   \* what that call returned (or that it raised)
    file,          \* the spreadsheet behind ExcelProcessor.file_path
    data,          \* ExcelProcessor.data: NoData or the loaded DataFrame
    columns,       \* ExcelProcessor.columns
    summary,       \* ExcelProcessor.summary
    ret,           \* the outcome of the last ExcelProcessor method call
    earlier,       \* the outcome of the call before it when both calls were
                   \* get_summary (the caller still holds it), else NoRet
    attempts,      \* how many times the last call ran pd.read_excel
    loans,         \* the rows of table loan, loans[i] the row of id i
    payments,      \* the rows of table payment
    activities,    \* the rows of table client_activity
    sms,           \* the messages handed to Twilio, in order
    now,           \* the number of requests served so far (the clock)
    request        \* the last request, its response and the tables before it

vars == <<loan_data, risk_result, file, data, columns, summary, ret, earlier, attempts,
          loans, payments, activities, sms, now, request>>

riskVars == <<loan_data, risk_result>>
excelVars == <<file, data, columns, summary, ret, earlier, attempts>>
webVars == <<loans, payments, activities, sms, now, request>>

(***************************************************************************)
(* Exact rational arithmetic.                                              *)
(***************************************************************************)
Abs(x) == IF x < 0 THEN -x ELSE x

RECURSIVE GCD(_, _)
GCD(a, b) == IF b = 0 THEN a ELSE GCD(b, a % b)

NaN == [n |-> 0, d |-> 0]
IsNaN(x) == x.n = 0 /\ x.d = 0
IsFinite(x) == x.d # 0

\* n/d in lowest terms with a positive denominator; n/0 is inf, -inf or nan
Rat(n, d) ==
    LET s == IF d < 0 THEN -1 ELSE 1
        g == GCD(Abs(n), Abs(d))
    IN  IF g = 0 THEN NaN ELSE [n |-> (s * n) \div g, d |-> (s * d) \div g]

RInt(k) == [n |-> k, d |-> 1]

\* inf + inf = inf, inf + -inf = nan, nan + x = nan
RatAdd(x, y) ==
    IF x.d = 0 /\ y.d = 0 THEN (IF x = y THEN x ELSE NaN)
    ELSE Rat(x.n * y.d + y.n * x.d, x.d * y.d)
RatNeg(x) == [n |-> -x.n, d |-> x.d]
RatSub(x, y) == RatAdd(x, RatNeg(y))

\* cross-cancelled before multiplying, to keep the intermediate values small
RatMul(x, y) ==
    LET g1 == GCD(Abs(x.n), y.d)
        g2 == GCD(Abs(y.n), x.d)
        h1 == IF g1 = 0 THEN 1 ELSE g1
        h2 == IF g2 = 0 THEN 1 ELSE g2
    IN  Rat((x.n \div h1) * (y.n \div h2), (x.d \div h2) * (y.d \div h1))

\* y finite, y # 0
RatDiv(x, y) == RatMul(x, Rat(y.d, y.n))

\* <, <= and == of floats: every comparison with nan is false
RatLt(x, y) ==
    IF x.d = 0 /\ y.d = 0 THEN x.n = -1 /\ y.n = 1
    ELSE x.n * y.d < y.n * x.d

RatLe(x, y) ==
    /\ ~IsNaN(x)
    /\ ~IsNaN(y)
    /\ IF x.d = 0 /\ y.d = 0 THEN x.n <= y.n ELSE x.n * y.d <= y.n * x.d

RatEq(x, y) ==
    IF x.d = 0 \/ y.d = 0 THEN x = y /\ ~IsNaN(x)
    ELSE x.n * y.d = y.n * x.d

\* Python's min(a, b) and max(a, b): b when b < a (b > a), else a, so that
\* min(1.0, nan) is 1.0 and max(0.0, nan) is 0.0
RatMin(x, y) == IF RatLt(y, x) THEN y ELSE x
RatMax(x, y) == IF RatLt(x, y) THEN y ELSE x

\* x ** k for an integer k (x # 0 when k < 0)
RECURSIVE RatPow(_, _)
RatPow(x, k) ==
    IF k = 0 THEN RInt(1)
    ELSE IF k < 0 THEN RatPow(Rat(x.d, x.n), -k)
    ELSE RatMul(x, RatPow(x, k - 1))

\* int(x) on a float: truncation toward zero
Trunc(x) == IF x.n >= 0 THEN x.n \div x.d ELSE -((-x.n) \div x.d)

(***************************************************************************)
(* Values a key of the loan record can hold (the record is request.json,   *)
(* routes/client_routes.py:53,89, so any JSON value can arrive).           *)
(*   absent  the key is not in the record                                  *)
(*   null    JSON null (None)                                              *)
(*   text    a string that spells no number                                *)
(*   num     a JSON number n/d                                             *)
(*   numstr  a string that spells the number n/d in its shortest decimal   *)
(*           form ("12", "12.5"): an integer literal iff d = 1; with d = 0 *)
(*           the strings "inf", "-inf" and "nan", which float() accepts    *)
(*           and int() does not                                            *)
(***************************************************************************)
Absent == [k |-> "absent", n |-> 0, d |-> 1]
Null == [k |-> "null", n |-> 0, d |-> 1]
Text == [k |-> "text", n |-> 0, d |-> 1]
Num(n, d) == [k |-> "num", n |-> Rat(n, d).n, d |-> Rat(n, d).d]
NumStr(n, d) == [k |-> "numstr", n |-> Rat(n, d).n, d |-> Rat(n, d).d]

ValueOf(v) == [n |-> v.n, d |-> v.d]

\* bounds of the numeric inputs
MaxAmountK == 4
MaxTermK == 50
MaxRateK == 5

\* the strings "inf", "-inf" and "nan"
NotFinite == {NumStr(1, 0), NumStr(-1, 0), NumStr(0, 0)}

\* amounts -20000, -15000 .. 20000
AmountInputs ==
    {Num(5000 * k, 1) : k \in -MaxAmountK..MaxAmountK}
        \cup {Absent, Null, Text, NumStr(5000, 1)} \cup NotFinite

\* terms in steps of 0.75: .. -0.75, 0, 0.75, 1.5 .. 12 .. 36, 36.75, 37.5
TermInputs ==
    {Num(3 * k, 4) : k \in -MaxTermK..MaxTermK}
        \cup {Absent, Null, Text, NumStr(12, 1), NumStr(25, 2)}

\* rates -25, -20 .. 25, and the two rates at which 1 + monthly_rate is 0 or -1
InterestInputs ==
    {Num(5 * k, 1) : k \in -MaxRateK..MaxRateK}
        \cup {Num(-1200, 1), Num(-2400, 1), Absent, Null, Text, NumStr(10, 1)}
        \cup NotFinite

\* loan_data: a mapping, or a value that is no container at all (None)
NotAMapping ==
    [mapping |-> FALSE, amount |-> Absent, term_months |-> Absent,
     interest_rate |-> Absent]

LoanInputs ==
    [mapping : {TRUE}, amount : AmountInputs, term_months : TermInputs,
     interest_rate : InterestInputs] \cup {NotAMapping}

required_fields == <<"amount", "term_months", "interest_rate">>

Field(ld, f) ==
    CASE f = "amount" -> ld.amount
      [] f = "term_months" -> ld.term_months
      [] f = "interest_rate" -> ld.interest_rate

\* [f for f in required_fields if f not in loan_data]
missing_fields(ld) ==
    SelectSeq(required_fields, LAMBDA f : Field(ld, f).k = "absent")

\* float(x): raises on None (TypeError), on text that spells no number
\* (ValueError) and on an absent key (KeyError); float("inf"), float("-inf")
\* and float("nan") are floats
FloatConvNullIsZero(v) ==
    [ok |-> v.k \in {"num", "numstr", "null"}, v |-> ValueOf(v)]

FloatConv(v) == [ok |-> v.k \in {"num", "numstr"}, v |-> ValueOf(v)]

\* int(x): truncates a number toward zero; accepts a string only when it is an
\* integer literal (int("12.5") and int("inf") raise ValueError)
IntConv(v) ==
    [ok |-> v.k = "num" \/ (v.k = "numstr" /\ v.d = 1),
     v |-> IF v.d = 0 THEN 0 ELSE Trunc(ValueOf(v))]

amount_factor(amount) == RatMin(RInt(1), RatDiv(amount, RInt(10000)))

term_factor(term) == RatMin(RInt(1), RatDiv(RInt(term), RInt(36)))

interest_factor(interest) ==
    RatMax(RInt(0), RatSub(RInt(1), RatDiv(interest, RInt(20))))

risk_score_swapped(af, tf, if) ==
    RatMul(RatAdd(RatAdd(RatMul(af, Rat(1, 2)), RatMul(tf, Rat(2, 10))),
                  RatMul(if, Rat(3, 10))), RInt(100))

risk_score(af, tf, if) ==
    RatMul(RatAdd(RatAdd(RatMul(af, Rat(1, 2)), RatMul(tf, Rat(3, 10))),
                  RatMul(if, Rat(2, 10))), RInt(100))

risk_category(score) ==
    IF RatLt(score, RInt(30)) THEN "Low"
    ELSE IF RatLt(score, RInt(70)) THEN "Medium"
    ELSE "High"

approval_recommended_medium(score) ==
    IF RatLt(score, RInt(30)) THEN TRUE
    ELSE IF RatLt(score, RInt(70)) THEN TRUE
    ELSE FALSE

approval_recommended(score) ==
    IF RatLt(score, RInt(30)) THEN TRUE
    ELSE IF RatLt(score, RInt(70)) THEN RatLt(score, RInt(50))
    ELSE FALSE

monthly_rate(interest) == RatDiv(RatDiv(interest, RInt(100)), RInt(12))

(***************************************************************************)
(* Line 309 raises ZeroDivisionError when (1 + monthly_rate) is 0 and is   *)
(* raised to a negative power, and when the divisor                        *)
(* (1 + monthly_rate) ** term - 1 is 0.  For a rational base b and an      *)
(* integer term, b ** term = 1 exactly when term = 0, b = 1, or b = -1     *)
(* with an even term, so the divisor is decided without computing the      *)
(* power (which for terms of 12 or 36 months has hundreds of digits).      *)
(* With a monthly rate of inf, -inf or nan the power is 1.0 when term = 0  *)
(* and otherwise inf, -inf, 0.0 or nan, none of which makes the divisor 0. *)
(***************************************************************************)
amortization_never_raises(rate, term) == FALSE

amortization_raises(rate, term) ==
    LET base == RatAdd(RInt(1), rate)
    IN  \/ term = 0
        \/ /\ IsFinite(rate)
           /\ \/ (base.n = 0 /\ term < 0)
              \/ RatEq(base, RInt(1))
              \/ (RatEq(base, RInt(-1)) /\ term % 2 = 0)

\* the three payment entries of the returned dictionary, as functions of the
\* locals amount, monthly_rate and term (defined when line 309 does not raise;
\* computed here for a finite amount and monthly_rate)
monthly_payment(amount, rate, term) ==
    LET pw == RatPow(RatAdd(RInt(1), rate), term)
    IN  RatDiv(RatMul(RatMul(amount, rate), pw), RatSub(pw, RInt(1)))

total_payment(amount, rate, term) ==
    RatMul(monthly_payment(amount, rate, term), RInt(term))

total_interest(amount, rate, term) ==
    RatSub(total_payment(amount, rate, term), amount)

SuccessKeys ==
    {"status", "risk_score", "risk_category", "approval_recommended",
     "monthly_payment", "total_payment", "total_interest"}

\* The value of one call.  outcome is "return" or "raise"; keys are the keys of
\* the returned dictionary; amount, term and monthly_rate are the locals the
\* payment entries are computed from.
RiskRecord(outcome, keys, error, score, category, approved, amount, term, rate) ==
    [outcome |-> outcome, keys |-> keys, error |-> error, risk_score |-> score,
     risk_category |-> category, approval_recommended |-> approved,
     amount |-> amount, term |-> term, monthly_rate |-> rate]

NoRiskResult == RiskRecord("none", {}, "", RInt(0), "", FALSE, RInt(0), 0, RInt(0))

RiskError(msg) ==
    RiskRecord("return", {"error"}, msg, RInt(0), "", FALSE, RInt(0), 0, RInt(0))

RiskRaise(exc) ==
    RiskRecord("raise", {}, exc, RInt(0), "", FALSE, RInt(0), 0, RInt(0))

\* MicrofinanceML.analyze_loan_risk(loan_data)
LoanRiskResult(ld) ==
    IF ~ld.mapping THEN RiskRaise("TypeError")     \* `f not in None`, outside the try
    ELSE IF missing_fields(ld) # <<>> THEN RiskError("Missing required fields")
    ELSE
      LET a == FloatConv(ld.amount)
          t == IntConv(ld.term_months)
          i == FloatConv(ld.interest_rate)
      IN  IF ~(a.ok /\ t.ok /\ i.ok) THEN RiskError("Error analyzing loan risk")
          ELSE
            LET score == risk_score(amount_factor(a.v), term_factor(t.v),
                                    interest_factor(i.v))
                rate == monthly_rate(i.v)
            IN  IF amortization_raises(rate, t.v)
                THEN RiskError("Error analyzing loan risk")
                ELSE RiskRecord("return", SuccessKeys, "", score,
                                risk_category(score), approval_recommended(score),
                                a.v, t.v, rate)

(***************************************************************************)
(* ExcelProcessor before any spreadsheet is attached to the behaviour.     *)
(***************************************************************************)
NoFile == [readable |-> FALSE, headers |-> <<>>, rows |-> <<>>]
NoData == [loaded |-> FALSE, headers |-> <<>>, dtypes |-> <<>>, rows |-> <<>>]
NoRet == [op |-> "none", outcome |-> "none", error |-> "", value |-> <<>>]

ExcelIdle ==
    /\ file = NoFile
    /\ data = NoData
    /\ columns = <<>>
    /\ summary = <<>>
    /\ ret = NoRet
    /\ earlier = NoRet
    /\ attempts = 0

\* the database and the SMS gateway before any request
NoRequest ==
    [op |-> "none", user |-> 0, loan_id |-> 0, body |-> <<>>, code |-> 0, message |-> "",
     before |-> [loans |-> <<>>, payments |-> <<>>, activities |-> <<>>, sms |-> <<>>]]

WebIdle ==
    /\ loans = <<>>
    /\ payments = <<>>
    /\ activities = <<>>
    /\ sms = <<>>
    /\ now = 0
    /\ request = NoRequest

(***************************************************************************)
(* The loan risk scorer: a pure function of the loan record (the scorer    *)
(* keeps no state between calls).  A behaviour is one call: the record     *)
(* arrives, analyze_loan_risk runs on it.                                  *)
(***************************************************************************)
InitRisk ==
    /\ loan_data \in LoanInputs
    /\ risk_result = NoRiskResult
    /\ ExcelIdle
    /\ WebIdle

analyze_loan_risk ==
    /\ risk_result = NoRiskResult
    /\ risk_result' = LoanRiskResult(loan_data)
    /\ UNCHANGED <<loan_data, excelVars, webVars>>

NextRisk == analyze_loan_risk

SpecRisk == InitRisk /\ [][NextRisk]_vars

Called == risk_result.outcome # "none"

Success == risk_result.outcome = "return" /\ "risk_score" \in risk_result.keys

ErrorResult ==
    /\ risk_result.outcome = "return"
    /\ "error" \in risk_result.keys
    /\ "risk_score" \notin risk_result.keys

IsNumber(v) == v.k = "num"

\* C1: every success result has 0 <= risk_score <= 100, whatever the amount,
\* term and interest rate are (negative ones included).
C1_ScoreBetween0And100 ==
    Success =>
        /\ RatLe(RInt(0), risk_result.risk_score)
        /\ RatLe(risk_result.risk_score, RInt(100))

\* the formula of the specification, on three numbers (scores are kept in
\* lowest terms, so two scores are the same float exactly when they are equal
\* as records; nan is the one float that == does not find equal to itself)
SpecScore(a, t, i) ==
    LET amountFactor == RatMin(RInt(1), RatDiv(a, RInt(10000)))
        termFactor == RatMin(RInt(1), RatDiv(t, RInt(36)))
        interestFactor == RatMax(RInt(0), RatSub(RInt(1), RatDiv(i, RInt(20))))
    IN  RatMul(RInt(100),
               RatAdd(RatAdd(RatMul(Rat(5, 10), amountFactor),
                             RatMul(Rat(3, 10), termFactor)),
                      RatMul(Rat(2, 10), interestFactor)))

Example95 ==
    [mapping |-> TRUE, amount |-> Num(20000, 1), term_months |-> Num(36, 1),
     interest_rate |-> Num(5, 1)]

Example5000 ==
    [mapping |-> TRUE, amount |-> Num(5000, 1), term_months |-> Num(12, 1),
     interest_rate |-> Num(10, 1)]

\* C2 as stated: every success result has risk_score =
\* 100 * (0.5*min(1, amount/10000) + 0.3*min(1, term_months/36)
\*        + 0.2*max(0, 1 - interest_rate/20)), with term_months as given in the
\* record; amount=20000, term=36, rate=5 scores exactly 95.
C2_ScoreFormulaOnTermMonths ==
    /\ Success =>
          risk_result.risk_score =
              SpecScore(ValueOf(loan_data.amount), ValueOf(loan_data.term_months),
                        ValueOf(loan_data.interest_rate))
    /\ (Called /\ loan_data = Example95) =>
          (Success /\ RatEq(risk_result.risk_score, RInt(95)))

\* C2 amended: the same formula with termFactor = min(1, int(term_months)/36),
\* int() truncating term_months toward zero; amount=20000, term=36, rate=5
\* scores exactly 95.
C2_ScoreFormulaOnTruncatedTerm ==
    /\ Success =>
          risk_result.risk_score =
              SpecScore(ValueOf(loan_data.amount),
                        RInt(Trunc(ValueOf(loan_data.term_months))),
                        ValueOf(loan_data.interest_rate))
    /\ (Called /\ loan_data = Example95) =>
          (Success /\ RatEq(risk_result.risk_score, RInt(95)))

\* a success on a fractional term below 36 months: the truncation shows in the score
C2_Witness ==
    /\ Success
    /\ loan_data.term_months.d # 1
    /\ risk_result.term > 0
    /\ risk_result.term < 36
    /\ IsFinite(risk_result.risk_score)
    /\ risk_result.risk_score #
           SpecScore(ValueOf(loan_data.amount), ValueOf(loan_data.term_months),
                     ValueOf(loan_data.interest_rate))

\* C3: in every success result the category is Low exactly when
\* risk_score < 30, Medium exactly when 30 <= risk_score < 70, High exactly when
\* risk_score >= 70, and it is one of the three.  (A score of nan is below no
\* threshold and above none, and lines 303-305 call it High.)
C3_CategoryThresholds ==
    Success =>
        LET s == risk_result.risk_score
            c == risk_result.risk_category
        IN  /\ c \in {"Low", "Medium", "High"}
            /\ (c = "Low") <=> RatLt(s, RInt(30))
            /\ (c = "Medium") <=> (RatLe(RInt(30), s) /\ RatLt(s, RInt(70)))
            /\ (c = "High") <=> RatLe(RInt(70), s)

ApprovalRule ==
    Success =>
        LET s == risk_result.risk_score
            c == risk_result.risk_category
            a == risk_result.approval_recommended
        IN  /\ a <=> RatLt(s, RInt(50))
            /\ (c = "Low") => a
            /\ (c = "Medium") => (a <=> RatLt(s, RInt(50)))
            /\ (c = "High") => ~a

\* C4 as stated: approval_recommended is true exactly when risk_score < 50
\* (true for Low, risk_score < 50 for Medium, false for High), and
\* amount=5000, term=12, rate=10 scores about 41.67, is Medium and approved.
C4_ApprovalAndExampleAt4167 ==
    /\ ApprovalRule
    /\ (Called /\ loan_data = Example5000) =>
          /\ Success
          /\ risk_result.risk_category = "Medium"
          /\ risk_result.approval_recommended
          /\ RatLe(Rat(41665, 1000), risk_result.risk_score)
          /\ RatLe(risk_result.risk_score, Rat(41675, 1000))

\* C4 amended: approval_recommended is true exactly when risk_score < 50
\* (true for Low, risk_score < 50 for Medium, false for High), and
\* amount=5000, term=12, rate=10 scores 45, is Medium and approved.
C4_ApprovalAndExampleAt45 ==
    /\ ApprovalRule
    /\ (Called /\ loan_data = Example5000) =>
          /\ Success
          /\ risk_result.risk_category = "Medium"
          /\ risk_result.approval_recommended
          /\ RatEq(risk_result.risk_score, RInt(45))

C4_Witness ==
    /\ loan_data = Example5000
    /\ Success
    /\ risk_result.risk_category = "Medium"
    /\ risk_result.approval_recommended
    /\ RatEq(risk_result.risk_score, RInt(45))

\* C5: with interest_rate 0 and a positive term_months the call succeeds with
\* monthly_payment = amount / term_months and total_interest = 0.
C5_ZeroRateFallback ==
    (/\ Called
     /\ loan_data.mapping
     /\ IsNumber(loan_data.amount)
     /\ IsNumber(loan_data.term_months)
     /\ Trunc(ValueOf(loan_data.term_months)) > 0
     /\ IsNumber(loan_data.interest_rate)
     /\ loan_data.interest_rate.n = 0)
    => /\ Success
       /\ RatEq(monthly_payment(risk_result.amount, risk_result.monthly_rate,
                                risk_result.term),
                RatDiv(ValueOf(loan_data.amount),
                       RInt(Trunc(ValueOf(loan_data.term_months)))))
       /\ total_interest(risk_result.amount, risk_result.monthly_rate,
                         risk_result.term).n = 0

\* C6: when term_months is 0 the call returns an error result: no success
\* result and no exception.
C6_ZeroTermIsError ==
    (/\ Called
     /\ loan_data.mapping
     /\ IsNumber(loan_data.term_months)
     /\ Trunc(ValueOf(loan_data.term_months)) = 0)
    => ErrorResult

\* a zero term with a valid amount and rate: the error comes from line 309
C6_Witness ==
    /\ loan_data.mapping
    /\ loan_data.term_months = Num(0, 1)
    /\ loan_data.amount = Num(5000, 1)
    /\ loan_data.interest_rate = Num(10, 1)
    /\ ErrorResult
    /\ risk_result.error = "Error analyzing loan risk"

Unconvertible(v) == v.k \in {"null", "text"}

\* C7: if one of amount, term_months, interest_rate is absent from the record
\* or cannot be converted to a number (by float(), for term_months by int()),
\* the call returns a mapping with key 'error' and no risk_score, and does not
\* raise.
C7_MissingOrMalformedIsError ==
    (/\ Called
     /\ loan_data.mapping
     /\ \/ \E f \in {"amount", "term_months", "interest_rate"} :
               Field(loan_data, f).k = "absent"
        \/ Unconvertible(loan_data.amount)
        \/ Unconvertible(loan_data.interest_rate)
        \/ Unconvertible(loan_data.term_months)
        \/ (loan_data.term_months.k = "numstr" /\ loan_data.term_months.d # 1))
    => ErrorResult

\* a null amount beside a valid term and rate
C7_Witness ==
    /\ loan_data.mapping
    /\ loan_data.amount = Null
    /\ loan_data.term_months = Num(12, 1)
    /\ loan_data.interest_rate = Num(10, 1)
    /\ ErrorResult

(***************************************************************************)
(* Text.  A Python str is a sequence of one-character strings.             *)
(***************************************************************************)
\* the characters of the model in code point order
AsciiChars ==
    <<" ", "-", ".", "/">> \o
    <<"0", "1", "2", "3", "4", "5", "6", "7", "8", "9">> \o
    <<"A", "B", "C", "D", "E", "F", "G", "H", "I", "J", "K", "L", "M", "N", "O", "P", "Q", "R", "S", "T", "U", "V", "W", "X", "Y", "Z">> \o
    <<"_", "a", "b", "c", "d", "e", "f", "g", "h", "i", "j", "k", "l", "m", "n", "o", "p", "q", "r", "s", "t", "u", "v", "w", "x", "y", "z">>

UpperChars == <<"A", "B", "C", "D", "E", "F", "G", "H", "I", "J", "K", "L", "M", "N", "O", "P", "Q", "R", "S", "T", "U", "V", "W", "X", "Y", "Z">>

LowerChars == <<"a", "b", "c", "d", "e", "f", "g", "h", "i", "j", "k", "l", "m", "n", "o", "p", "q", "r", "s", "t", "u", "v", "w", "x", "y", "z">>

Ord(c) == CHOOSE i \in 1..Len(AsciiChars) : AsciiChars[i] = c

LowerChar(c) ==
    IF \E i \in 1..26 : UpperChars[i] = c
    THEN LowerChars[CHOOSE i \in 1..26 : UpperChars[i] = c]
    ELSE c

\* s.lower()
str_lower(s) == [i \in 1..Len(s) |-> LowerChar(s[i])]

\* t in s, for a non-empty t
str_contains(s, t) ==
    \E i \in 1..(Len(s) - Len(t) + 1) : SubSeq(s, i, i + Len(t) - 1) = t

\* s < t on str: code point order, a proper prefix first
RECURSIVE str_less(_, _)
str_less(s, t) ==
    IF t = <<>> THEN FALSE
    ELSE IF s = <<>> THEN TRUE
    ELSE IF s[1] # t[1] THEN Ord(s[1]) < Ord(t[1])
    ELSE str_less(Tail(s), Tail(t))

\* s.replace(old, ""), scanning left to right
RECURSIVE str_remove(_, _)
str_remove(s, old) ==
    IF Len(s) < Len(old) THEN s
    ELSE IF SubSeq(s, 1, Len(old)) = old
         THEN str_remove(SubSeq(s, Len(old) + 1, Len(s)), old)
         ELSE <<s[1]>> \o str_remove(Tail(s), old)

\* any(term in name for term in terms)
any_term_in(terms, name) ==
    \E i \in 1..Len(terms) : str_contains(name, terms[i])

AmountTerms ==
    <<<<"a", "m", "o", "u", "n", "t">>,
      <<"p", "r", "i", "c", "e">>,
      <<"c", "o", "s", "t">>,
      <<"f", "e", "e">>,
      <<"p", "a", "y", "m", "e", "n", "t">>,
      <<"l", "o", "a", "n">>,
      <<"p", "r", "i", "n", "c", "i", "p", "a", "l">>,
      <<"i", "n", "t", "e", "r", "e", "s", "t">>>>

DateTerms ==
    <<<<"d", "a", "t", "e">>,
      <<"t", "i", "m", "e">>,
      <<"p", "e", "r", "i", "o", "d">>,
      <<"d", "a", "y">>,
      <<"m", "o", "n", "t", "h">>,
      <<"y", "e", "a", "r">>>>

AgentTerms ==
    <<<<"a", "g", "e", "n", "t">>,
      <<"e", "m", "p", "l", "o", "y", "e", "e">>,
      <<"s", "t", "a", "f", "f">>,
      <<"n", "a", "m", "e">>>>

CommissionTerms ==
    <<<<"c", "o", "m", "m", "i", "s", "s", "i", "o", "n">>,
      <<"b", "o", "n", "u", "s">>,
      <<"i", "n", "c", "e", "n", "t", "i", "v", "e">>,
      <<"p", "a", "y", "o", "u", "t">>>>

(***************************************************************************)
(* The DataFrame.  A column label is text, or (when the header cell of the *)
(* sheet holds a number) an integer.  A cell is missing (NaN/NaT), a       *)
(* number n/d, a text that spells neither a number nor a date, or a        *)
(* timestamp, kept as its calendar month mo = 12*year + (month - 1): the   *)
(* code reads nothing finer of a timestamp (Grouper freq 'M', '%Y-%m').    *)
(***************************************************************************)
Header(s) == [k |-> "text", s |-> s, v |-> 0]
IntHeader(v) == [k |-> "int", s |-> <<>>, v |-> v]

NA == [k |-> "na", n |-> 0, d |-> 1, s |-> <<>>, mo |-> 0]
CNum(n, d) == [k |-> "num", n |-> Rat(n, d).n, d |-> Rat(n, d).d, s |-> <<>>, mo |-> 0]
CText(s) == [k |-> "text", n |-> 0, d |-> 1, s |-> s, mo |-> 0]
CDate(y, m) == [k |-> "date", n |-> 0, d |-> 1, s |-> <<>>, mo |-> 12 * y + (m - 1)]

isna(c) == c.k = "na"

\* the position of the column labelled h (labels of a sheet are distinct)
ColIndex(tbl, h) == CHOOSE j \in 1..Len(tbl.headers) : tbl.headers[j] = h

HasCol(tbl, h) == \E j \in 1..Len(tbl.headers) : tbl.headers[j] = h

\* self.data[h]: the cells of column h, in row order
Column(tbl, h) ==
    LET j == ColIndex(tbl, h)
    IN  [i \in 1..Len(tbl.rows) |-> tbl.rows[i][j]]

\* self.data[h] = cells, of dtype dt: replaces the column in place, or appends
\* a new one
SetColumn(tbl, h, dt, cells) ==
    IF HasCol(tbl, h)
    THEN LET j == ColIndex(tbl, h)
         IN  [tbl EXCEPT !.dtypes = [tbl.dtypes EXCEPT ![j] = dt],
                         !.rows = [i \in 1..Len(tbl.rows) |->
                                      [tbl.rows[i] EXCEPT ![j] = cells[i]]]]
    ELSE [tbl EXCEPT !.headers = Append(tbl.headers, h),
                     !.dtypes = Append(tbl.dtypes, dt),
                     !.rows = [i \in 1..Len(tbl.rows) |-> Append(tbl.rows[i], cells[i])]]

\* dropna()
dropna(cells) == SelectSeq(cells, LAMBDA c : ~isna(c))

\* the dtype read_excel gives a column: numeric when it has a row and every
\* cell is a number or missing, datetime when every cell is a timestamp or
\* missing, else object (a sheet without rows has object columns)
infer_dtype(cells) ==
    IF Len(cells) = 0 THEN "object"
    ELSE IF \A i \in 1..Len(cells) : cells[i].k \in {"num", "na"} THEN "numeric"
    ELSE IF \A i \in 1..Len(cells) : cells[i].k \in {"date", "na"} THEN "datetime"
    ELSE "object"

\* a dtype test that every column passes
is_any_dtype(tbl, h) == tbl.dtypes[ColIndex(tbl, h)] \in {"numeric", "datetime", "object"}

\* pd.api.types.is_numeric_dtype(self.data[h])
is_numeric_dtype(tbl, h) == tbl.dtypes[ColIndex(tbl, h)] = "numeric"

\* a float result: a number, or NaN
FNum(r) == [k |-> "num", v |-> r]
FNaN == [k |-> "nan", v |-> RInt(0)]

CellRat(c) == [n |-> c.n, d |-> c.d]

RECURSIVE SumRat(_)
SumRat(cells) ==
    IF cells = <<>> THEN RInt(0)
    ELSE RatAdd(CellRat(Head(cells)), SumRat(Tail(cells)))

RECURSIVE MaxRat(_)
MaxRat(cells) ==
    IF Len(cells) = 1 THEN CellRat(cells[1])
    ELSE RatMax(CellRat(Head(cells)), MaxRat(Tail(cells)))

RECURSIVE MinRat(_)
MinRat(cells) ==
    IF Len(cells) = 1 THEN CellRat(cells[1])
    ELSE RatMin(CellRat(Head(cells)), MinRat(Tail(cells)))

\* Series.sum(), mean(), max(), min() of a numeric column: missing cells are
\* skipped; the sum of nothing is 0, the mean, max and min of nothing are NaN
series_sum(cells) == FNum(SumRat(dropna(cells)))

series_mean(cells) ==
    LET v == dropna(cells)
    IN  IF v = <<>> THEN FNaN ELSE FNum(RatDiv(SumRat(v), RInt(Len(v))))

series_max(cells) ==
    LET v == dropna(cells) IN IF v = <<>> THEN FNaN ELSE FNum(MaxRat(v))

series_min(cells) ==
    LET v == dropna(cells) IN IF v = <<>> THEN FNaN ELSE FNum(MinRat(v))

(***************************************************************************)
(* ExcelProcessor.load_data                                                *)
(***************************************************************************)
\* pd.read_excel(self.file_path): the table, or an exception
Loaded(f) ==
    [loaded |-> TRUE, headers |-> f.headers,
     dtypes |-> [j \in 1..Len(f.headers) |->
                    infer_dtype([i \in 1..Len(f.rows) |-> f.rows[i][j]])],
     rows |-> f.rows]

\* a load that leaves an empty table behind when the file cannot be read
DataAfterLoadEmptyOnFailure == IF data.loaded THEN data ELSE Loaded(file)

\* the processor's data and columns after the `if self.data is None:
\* self.load_data()` that opens get_summary, analyze_financial_data and
\* extract_commission_data, and the number of load_data calls it makes
DataAfterLoad == IF data.loaded \/ ~file.readable THEN data ELSE Loaded(file)
LoadAttempts == IF data.loaded THEN 0 ELSE 1
ColumnsAfterLoad == IF data.loaded \/ ~file.readable THEN columns ELSE file.headers

Ret(op, outcome, error, value) ==
    [op |-> op, outcome |-> outcome, error |-> error, value |-> value]

load_data ==
    /\ IF file.readable
       THEN /\ data' = Loaded(file)
            /\ columns' = file.headers
            /\ ret' = Ret("load_data", "return", "", TRUE)
       ELSE /\ UNCHANGED <<data, columns>>
            /\ ret' = Ret("load_data", "return", "", FALSE)
    /\ earlier' = NoRet
    /\ attempts' = 1
    /\ UNCHANGED <<summary, file, riskVars, webVars>>

(***************************************************************************)
(* str() of a number.                                                      *)
(***************************************************************************)
Digits == <<"0", "1", "2", "3", "4", "5", "6", "7", "8", "9">>

\* the decimal digits of a natural number
RECURSIVE nat_str(_)
nat_str(k) ==
    IF k < 10 THEN <<Digits[k + 1]>>
    ELSE nat_str(k \div 10) \o <<Digits[(k % 10) + 1]>>

\* the digits after the point of r/d, r < d, for a terminating decimal
RECURSIVE frac_str(_, _)
frac_str(r, d) ==
    IF r = 0 THEN <<>>
    ELSE <<Digits[((r * 10) \div d) + 1]>> \o frac_str((r * 10) % d, d)

int_str(k) == IF k < 0 THEN <<"-">> \o nat_str(-k) ELSE nat_str(k)

\* str(x) of a float with a short decimal form: "2.0", "-2.5"
float_str(x) ==
    LET a == Abs(x.n)
    IN  (IF x.n < 0 THEN <<"-">> ELSE <<>>) \o nat_str(a \div x.d) \o <<".">> \o
        (IF a % x.d = 0 THEN <<"0">> ELSE frac_str(a % x.d, x.d))

(***************************************************************************)
(* ExcelProcessor.extract_commission_data                                  *)
(***************************************************************************)
TopN == 5

\* the order of the group keys: numbers before text, numbers by value, text by
\* code points
cell_less(a, b) ==
    IF a.k = "num" /\ b.k = "num" THEN RatLt(CellRat(a), CellRat(b))
    ELSE IF a.k = "num" THEN b.k = "text"
    ELSE IF b.k = "num" THEN FALSE
    ELSE str_less(a.s, b.s)

RECURSIVE SortCells(_)
SortCells(S) ==
    IF S = {} THEN <<>>
    ELSE LET m == CHOOSE x \in S : \A y \in S \ {x} : cell_less(x, y)
         IN  <<m>> \o SortCells(S \ {m})

\* the distinct values of a sequence, in the order of their first occurrence
RECURSIVE Distinct(_)
Distinct(cells) ==
    IF cells = <<>> THEN <<>>
    ELSE LET rest == Distinct(SubSeq(cells, 1, Len(cells) - 1))
             c == cells[Len(cells)]
         IN  IF \E i \in 1..Len(rest) : rest[i] = c THEN rest ELSE Append(rest, c)

group_keys_unsorted(cells) == Distinct(dropna(cells))

\* the keys self.data.groupby(agent_col) iterates over: the distinct
\* non-missing values of the column, sorted (sort=True, dropna=True)
group_keys(cells) == SortCells({cells[i] : i \in {j \in 1..Len(cells) : ~isna(cells[j])}})

\* the cells of column `of` in the rows of the group of `key`
group_cells(by, of, key) ==
    LET idx == {i \in 1..Len(by) : by[i] = key}
        RECURSIVE pick(_)
        pick(i) ==
            IF i > Len(by) THEN <<>>
            ELSE (IF i \in idx THEN <<of[i]>> ELSE <<>>) \o pick(i + 1)
    IN  pick(1)

\* str(agent): text as it is; a number of an integer column or of a mixed
\* (object) column as an int when it is whole, else as a float
agent_str(c, cells) ==
    IF c.k = "text" THEN c.s
    ELSE LET int64 == \A i \in 1..Len(cells) : cells[i].k = "num" /\ cells[i].d = 1
             object == \E i \in 1..Len(cells) : cells[i].k = "text"
         IN  IF c.d = 1 /\ (int64 \/ object) THEN int_str(c.n)
             ELSE float_str(CellRat(c))

\* d[key] = val on a dict kept as the sequence of its items in insertion order
dict_set(d, key, val) ==
    IF \E i \in 1..Len(d) : d[i].key = key
    THEN [i \in 1..Len(d) |-> IF d[i].key = key THEN [key |-> key, val |-> val] ELSE d[i]]
    ELSE Append(d, [key |-> key, val |-> val])

\* float(group[commission_col].sum()) and the four entries beside it raise when
\* the group holds text (the sum of str is a str that spells no number, or a
\* TypeError)
group_raises(g) == \E i \in 1..Len(g) : g[i].k = "text"

commission_count(g) == Len(g)

group_details(g) ==
    [total_commission |-> series_sum(g),
     average_commission |-> series_mean(g),
     commission_count |-> commission_count(g),
     max_commission |-> series_max(g),
     min_commission |-> series_min(g)]

\* sorted(items, key=total_commission, reverse=True): stable, so items of equal
\* total keep their order
RECURSIVE insert_desc(_, _)
insert_desc(sorted, e) ==
    IF sorted = <<>> THEN <<e>>
    ELSE IF RatLt(Head(sorted).val.total_commission.v, e.val.total_commission.v)
         THEN <<e>> \o sorted
         ELSE <<Head(sorted)>> \o insert_desc(Tail(sorted), e)

RECURSIVE sorted_desc(_)
sorted_desc(items) ==
    IF items = <<>> THEN <<>>
    ELSE insert_desc(sorted_desc(SubSeq(items, 1, Len(items) - 1)), items[Len(items)])

\* the first agents of the dictionary, not the best ones
top_agents_unsorted(agent_commissions) ==
    SubSeq(agent_commissions, 1,
           IF Len(agent_commissions) < TopN THEN Len(agent_commissions) ELSE TopN)

top_agents(agent_commissions) ==
    LET srt == sorted_desc(agent_commissions)
    IN  SubSeq(srt, 1, IF Len(srt) < TopN THEN Len(srt) ELSE TopN)

RECURSIVE SumTotals(_)
SumTotals(items) ==
    IF items = <<>> THEN RInt(0)
    ELSE RatAdd(Head(items).val.total_commission.v, SumTotals(Tail(items)))

\* a choice of the last identified column
last_identified(matching) == matching[Len(matching)]

\* "Use the first identified columns": agent_columns[0], commission_columns[0]
first_identified(matching) == matching[1]

\* the body of extract_commission_data on the loaded table
ExtractCommission(tbl, cols) ==
    IF ~tbl.loaded
    THEN Ret("extract_commission_data", "return", "Failed to load data", <<>>)
    ELSE IF \E j \in 1..Len(cols) : cols[j].k # "text"
    THEN Ret("extract_commission_data", "raise", "AttributeError", <<>>)   \* col.lower()
    ELSE
      LET agent_columns ==
              SelectSeq(cols, LAMBDA h : any_term_in(AgentTerms, str_lower(h.s)))
          commission_columns ==
              SelectSeq(cols, LAMBDA h : any_term_in(CommissionTerms, str_lower(h.s)))
      IN  IF agent_columns = <<>> \/ commission_columns = <<>>
          THEN Ret("extract_commission_data", "return",
                   "Could not identify agent or commission columns", <<>>)
          ELSE
            LET agent_col == first_identified(agent_columns)
                commission_col == first_identified(commission_columns)
                by == Column(tbl, agent_col)
                of == Column(tbl, commission_col)
                keys == group_keys(by)
                RECURSIVE build(_)
                build(n) ==
                    IF n = 0 THEN <<>>
                    ELSE dict_set(build(n - 1), agent_str(keys[n], by),
                                  group_details(group_cells(by, of, keys[n])))
                agent_commissions == build(Len(keys))
                top == top_agents(agent_commissions)
            IN  IF \E n \in 1..Len(keys) : group_raises(group_cells(by, of, keys[n]))
                THEN Ret("extract_commission_data", "raise", "ValueError", <<>>)
                ELSE Ret("extract_commission_data", "return", "",
                         [agent_commissions |-> agent_commissions,
                          top_performers |->
                              [i \in 1..Len(top) |->
                                  [key |-> top[i].key,
                                   val |-> [total_commission |-> top[i].val.total_commission,
                                            average_commission |-> top[i].val.average_commission]]],
                          total_commissions |-> FNum(SumTotals(agent_commissions)),
                          commission_column |-> commission_col,
                          agent_column |-> agent_col])

extract_commission_data ==
    /\ data' = DataAfterLoad
    /\ columns' = ColumnsAfterLoad
    /\ ret' = ExtractCommission(DataAfterLoad, ColumnsAfterLoad)
    /\ earlier' = NoRet
    /\ attempts' = LoadAttempts
    /\ UNCHANGED <<summary, file, riskVars, webVars>>

(***************************************************************************)
(* Spreadsheets for extract_commission_data.                               *)
(***************************************************************************)
MaxRows == 3

Ann == CText(<<"A", "n", "n">>)
Bob == CText(<<"B", "o", "b">>)
Cy == CText(<<"C", "y">>)
Dee == CText(<<"D", "e", "e">>)
Eve == CText(<<"E", "v", "e">>)
Fay == CText(<<"F", "a", "y">>)
\* an agent code typed into a text cell; it is used in agent columns only
Seven == CText(<<"7">>)

H_Agent == Header(<<"A", "g", "e", "n", "t">>)
H_Commission == Header(<<"C", "o", "m", "m", "i", "s", "s", "i", "o", "n">>)
H_Region == Header(<<"R", "e", "g", "i", "o", "n">>)
H_Amount == Header(<<"A", "m", "o", "u", "n", "t">>)
H_Notes == Header(<<"N", "o", "t", "e", "s">>)
H_StaffName == Header(<<"S", "t", "a", "f", "f", " ", "N", "a", "m", "e">>)
H_BonusNote == Header(<<"B", "o", "n", "u", "s", " ", "N", "o", "t", "e">>)
H_PAYOUT == Header(<<"P", "A", "Y", "O", "U", "T">>)

Sheet(headers, rows) == [readable |-> TRUE, headers |-> headers, rows |-> rows]

Unreadable == [readable |-> FALSE, headers |-> <<>>, rows |-> <<>>]

\* every sheet of at most max rows whose cells of column j are drawn from cellsets[j]
Sheets(headers, cellsets, max) ==
    LET RowSet == {r \in [1..Len(cellsets) -> UNION {cellsets[j] : j \in 1..Len(cellsets)}] :
                      \A j \in 1..Len(cellsets) : r[j] \in cellsets[j]}
    IN  {Sheet(headers, rows) : rows \in UNION {[1..n -> RowSet] : n \in 0..max}}

\* one row per agent, TopN + 1 agents in every order, all with a commission of
\* 10 but at most one, who has 20
SixAgents == {Ann, Bob, Cy, Dee, Eve, Fay}

WideSheets ==
    LET n == TopN + 1
        orders == {f \in [1..n -> SixAgents] : \A i, j \in 1..n : f[i] = f[j] => i = j}
        amounts == {[i \in 1..n |-> IF i = k THEN CNum(20, 1) ELSE CNum(10, 1)] : k \in 0..n}
    IN  {Sheet(<<H_Agent, H_Commission>>, [i \in 1..n |-> <<f[i], a[i]>>]) :
            f \in orders, a \in amounts}

CommissionFiles ==
    Sheets(<<H_Agent, H_Commission>>,
           <<{NA, Ann, Bob}, {NA, CNum(10, 1), CNum(20, 1)}>>, MaxRows)
      \cup WideSheets
      \cup Sheets(<<H_StaffName, H_PAYOUT, H_Agent, H_Commission>>,
                  <<{Ann, Bob}, {NA, CNum(5, 2)}, {Cy}, {CNum(10, 1)}>>, 2)
      \cup Sheets(<<H_Region, H_Amount>>, <<{NA, Ann}, {NA, CNum(10, 1)}>>, 1)
      \cup Sheets(<<H_Agent, H_Notes>>, <<{NA, Ann}, {NA, Bob}>>, 1)
      \cup Sheets(<<H_Notes, H_Commission>>, <<{NA, Ann}, {NA, CNum(10, 1)}>>, 1)
      \cup Sheets(<<IntHeader(2024), H_Commission>>, <<{NA, CNum(1, 1)}, {NA, CNum(10, 1)}>>, 1)
      \cup Sheets(<<H_Agent, IntHeader(2024)>>, <<{NA, Ann}, {NA, CNum(10, 1)}>>, 1)
      \cup Sheets(<<H_Agent, H_BonusNote>>, <<{NA, Ann, Bob}, {Cy, Dee}>>, 2)
      \cup Sheets(<<H_Agent, H_Commission>>,
                  <<{CNum(7, 1), Seven}, {CNum(10, 1), CNum(20, 1)}>>, 2)
      \cup {Unreadable}

ProcessorInit ==
    /\ data = NoData
    /\ columns = <<>>
    /\ summary = <<>>
    /\ ret = NoRet
    /\ earlier = NoRet
    /\ attempts = 0

RiskIdle ==
    /\ loan_data = NotAMapping
    /\ risk_result = NoRiskResult

InitCommission ==
    /\ file \in CommissionFiles
    /\ ProcessorInit
    /\ RiskIdle
    /\ WebIdle

NextCommission == load_data \/ extract_commission_data

SpecCommission == InitCommission /\ [][NextCommission]_vars

\* a column label that is text and, lowercased, contains one of the terms
NameHasTerm(h, terms) == h.k = "text" /\ any_term_in(terms, str_lower(h.s))

ExtractReturned == ret.op = "extract_commission_data" /\ ret.outcome = "return"

CommissionReport == ExtractReturned /\ ret.error = ""

\* C8: on a loaded table in which no column name contains an agent keyword or
\* none contains a commission keyword, extract_commission_data returns the
\* 'not applicable' error result and does not throw, column labels that are
\* not text included.
C8_NotApplicableNeverThrows ==
    (/\ ret.op = "extract_commission_data"
     /\ data.loaded
     /\ \/ ~\E j \in 1..Len(columns) : NameHasTerm(columns[j], AgentTerms)
        \/ ~\E j \in 1..Len(columns) : NameHasTerm(columns[j], CommissionTerms))
    => /\ ret.outcome = "return"
       /\ ret.error = "Could not identify agent or commission columns"

\* the first row of the table whose agent is the one reported under `key`
FirstRow(key) ==
    LET by == Column(data, ret.value.agent_column)
    IN  CHOOSE i \in 1..Len(by) :
            /\ ~isna(by[i]) /\ agent_str(by[i], by) = key
            /\ \A j \in 1..(i - 1) : isna(by[j]) \/ agent_str(by[j], by) # key

\* the agent value reported under `key`
AgentValue(key) ==
    LET by == Column(data, ret.value.agent_column)
    IN  by[FirstRow(key)]

SameTotal(x, y) == RatEq(x.val.total_commission.v, y.val.total_commission.v)

InTop(key) ==
    \E i \in 1..Len(ret.value.top_performers) : ret.value.top_performers[i].key = key

\* C9 as stated: two agents of equal total commission appear in top_performers
\* in the order in which their groups are first met in the rows, and of two
\* such agents of which only one fits in the top 5 the one met first is kept.
C9_TiesInEncounterOrder ==
    CommissionReport =>
        LET top == ret.value.top_performers
            all == ret.value.agent_commissions
        IN  /\ \A i, j \in 1..Len(top) :
                  (i < j /\ SameTotal(top[i], top[j]))
                      => FirstRow(top[i].key) < FirstRow(top[j].key)
            /\ \A i \in 1..Len(top) : \A e \in 1..Len(all) :
                  (~InTop(all[e].key) /\ SameTotal(top[i], all[e]))
                      => FirstRow(top[i].key) < FirstRow(all[e].key)

\* C9 amended: two agents of equal total commission appear in top_performers
\* in ascending order of their agent values (the sorted order in which groupby
\* yields the groups), whatever the order of their rows, and of two such
\* agents of which only one fits in the top 5 the one that sorts first is kept.
C9_TiesInKeyOrder ==
    CommissionReport =>
        LET top == ret.value.top_performers
            all == ret.value.agent_commissions
        IN  /\ \A i, j \in 1..Len(top) :
                  (i < j /\ SameTotal(top[i], top[j]))
                      => cell_less(AgentValue(top[i].key), AgentValue(top[j].key))
            /\ \A i \in 1..Len(top) : \A e \in 1..Len(all) :
                  (~InTop(all[e].key) /\ SameTotal(top[i], all[e]))
                      => cell_less(AgentValue(top[i].key), AgentValue(all[e].key))

\* six agents, the last of the top 5 tied with the one left out, whose row
\* comes first in the table
C9_Witness ==
    /\ CommissionReport
    /\ Len(ret.value.agent_commissions) = TopN + 1
    /\ Len(ret.value.top_performers) = TopN
    /\ \E e \in 1..Len(ret.value.agent_commissions) :
          LET out == ret.value.agent_commissions[e]
              last == ret.value.top_performers[TopN]
          IN  /\ ~InTop(out.key)
              /\ SameTotal(last, out)
              /\ FirstRow(out.key) < FirstRow(last.key)
              /\ cell_less(AgentValue(last.key), AgentValue(out.key))

(***************************************************************************)
(* ExcelProcessor.analyze_financial_data                                   *)
(***************************************************************************)
bins == 5

\* f"{x:.2f}": x rounded to hundredths (a tie to the even one), with two digits
\* after the point
fmt2(x) ==
    LET a == Abs(x.n) * 100
        q == a \div x.d
        r == a % x.d
        h == IF 2 * r > x.d THEN q + 1
             ELSE IF 2 * r = x.d THEN q + (q % 2)
             ELSE q
    IN  (IF x.n < 0 THEN <<"-">> ELSE <<>>) \o nat_str(h \div 100) \o <<".">> \o
        <<Digits[((h % 100) \div 10) + 1], Digits[(h % 10) + 1]>>

\* bin edges over [min, max] also when min = max
bin_edges_unwidened(values) ==
    LET lo == IF values = <<>> THEN RInt(0) ELSE MinRat(values)
        hi == IF values = <<>> THEN RInt(1) ELSE MaxRat(values)
    IN  [i \in 1..(bins + 1) |->
            RatAdd(lo, RatDiv(RatMul(RInt(i - 1), RatSub(hi, lo)), RInt(bins)))]

\* the bin edges np.histogram(values, bins=5) takes: bins + 1 points evenly
\* spaced over [min, max]; over [0, 1] when there is no value, over
\* [min - 0.5, max + 0.5] when min = max
bin_edges(values) ==
    LET lo == IF values = <<>> THEN RInt(0) ELSE MinRat(values)
        hi == IF values = <<>> THEN RInt(1) ELSE MaxRat(values)
        first == IF RatEq(lo, hi) THEN RatSub(lo, Rat(1, 2)) ELSE lo
        last == IF RatEq(lo, hi) THEN RatAdd(hi, Rat(1, 2)) ELSE hi
    IN  [i \in 1..(bins + 1) |->
            RatAdd(first, RatDiv(RatMul(RInt(i - 1), RatSub(last, first)), RInt(bins)))]

\* a histogram whose last bin is half-open like the others
histogram_half_open(values) ==
    LET e == bin_edges(values)
    IN  [b \in 1..bins |->
            Cardinality({i \in 1..Len(values) :
                /\ RatLe(e[b], CellRat(values[i]))
                /\ RatLt(CellRat(values[i]), e[b + 1])})]

\* the counts of np.histogram: bin b holds the values in [e[b], e[b+1]), the
\* last bin those in [e[bins], e[bins+1]]
histogram(values) ==
    LET e == bin_edges(values)
    IN  [b \in 1..bins |->
            Cardinality({i \in 1..Len(values) :
                /\ RatLe(e[b], CellRat(values[i]))
                /\ \/ RatLt(CellRat(values[i]), e[b + 1])
                   \/ (b = bins /\ RatEq(CellRat(values[i]), e[b + 1]))})]

bin_labels(values) ==
    LET e == bin_edges(values)
    IN  [b \in 1..bins |-> fmt2(e[b]) \o <<"-">> \o fmt2(e[b + 1])]

\* pd.to_datetime(cells, errors='coerce'), cell by cell: a timestamp stays, a
\* number is a count of nanoseconds from 1970-01-01 (the numbers of the model
\* are far below a month of nanoseconds), anything else is NaT
to_datetime(c) ==
    IF c.k = "date" THEN c
    ELSE IF c.k = "num" THEN (IF c.n < 0 THEN CDate(1969, 12) ELSE CDate(1970, 1))
    ELSE NA

dt_suffix == <<"_", "d", "t">>

\* dt.strftime('%Y-%m') of a month
strftime_Ym(mo) ==
    LET y == mo \div 12
        m == (mo % 12) + 1
    IN  <<Digits[((y \div 1000) % 10) + 1], Digits[((y \div 100) % 10) + 1],
          Digits[((y \div 10) % 10) + 1], Digits[(y % 10) + 1], "-",
          Digits[(m \div 10) + 1], Digits[(m % 10) + 1]>>

\* the months a set of months holds, in increasing order
RECURSIVE SortedMonths(_)
SortedMonths(ms) ==
    IF ms = {} THEN <<>>
    ELSE LET lo == CHOOSE m \in ms : \A x \in ms : m <= x
         IN  <<lo>> \o SortedMonths(ms \ {lo})

\* a grouping with a bin only for the months that hold a row
monthly_data_observed(dates, amounts) ==
    LET ms == SortedMonths({dates[i].mo : i \in {j \in 1..Len(dates) : ~isna(dates[j])}})
    IN  [k \in 1..Len(ms) |->
            [mo |-> ms[k],
             sum |-> series_sum(group_cells(
                         [i \in 1..Len(dates) |->
                             IF isna(dates[i]) THEN -1 ELSE dates[i].mo],
                         amounts, ms[k]))]]

\* a grouping that leaves out the last month
monthly_data_open_end(dates, amounts) ==
    LET ms == {dates[i].mo : i \in {j \in 1..Len(dates) : ~isna(dates[j])}}
        lo == CHOOSE m \in ms : \A x \in ms : m <= x
        hi == CHOOSE m \in ms : \A x \in ms : x <= m
    IN  [k \in 1..(hi - lo) |->
            [mo |-> lo + k - 1,
             sum |-> series_sum(group_cells(
                         [i \in 1..Len(dates) |->
                             IF isna(dates[i]) THEN -1 ELSE dates[i].mo],
                         amounts, lo + k - 1))]]

\* self.data.groupby(pd.Grouper(key=date_col, freq='M'))[amount_col].sum():
\* one bin for every month from the first to the last month of the column,
\* each with the sum of the amounts of its rows (0 for a month without rows)
monthly_data(dates, amounts) ==
    LET ms == {dates[i].mo : i \in {j \in 1..Len(dates) : ~isna(dates[j])}}
        lo == CHOOSE m \in ms : \A x \in ms : m <= x
        hi == CHOOSE m \in ms : \A x \in ms : x <= m
    IN  [k \in 1..(hi - lo + 1) |->
            [mo |-> lo + k - 1,
             sum |-> series_sum(group_cells(
                         [i \in 1..Len(dates) |->
                             IF isna(dates[i]) THEN -1 ELSE dates[i].mo],
                         amounts, lo + k - 1))]]

\* lines 155-165: the processor's table after the date columns were looked for
RECURSIVE with_dt_columns(_, _, _)
with_dt_columns(tbl, cols, n) ==
    IF n = 0 THEN tbl
    ELSE LET t == with_dt_columns(tbl, cols, n - 1)
             col == cols[n]
         IN  IF any_term_in(DateTerms, str_lower(col.s))
             THEN SetColumn(t, Header(col.s \o dt_suffix), "datetime",
                            [i \in 1..Len(t.rows) |-> to_datetime(Column(t, col)[i])])
             ELSE t

\* lines 155-165: date_columns
RECURSIVE date_columns(_, _, _)
date_columns(tbl, cols, n) ==
    IF n = 0 THEN <<>>
    ELSE LET before == date_columns(tbl, cols, n - 1)
             t == with_dt_columns(tbl, cols, n)
             col == cols[n]
             dt == Header(col.s \o dt_suffix)
         IN  IF /\ any_term_in(DateTerms, str_lower(col.s))
                /\ \E i \in 1..Len(t.rows) : ~isna(Column(t, dt)[i])
             THEN Append(before, dt)
             ELSE before

time_series_key(date_col, amount_col) ==
    str_remove(date_col.s, dt_suffix) \o <<"_">> \o amount_col.s \o
        <<"_", "m", "o", "n", "t", "h", "l", "y">>

\* the body of analyze_financial_data on the loaded table: the value returned
\* and the table it leaves in self.data
AnalyzeFinancial(tbl, cols) ==
    IF ~tbl.loaded
    THEN [ret |-> Ret("analyze_financial_data", "return", "Failed to load data", <<>>),
          data |-> tbl]
    ELSE IF \E j \in 1..Len(cols) : cols[j].k # "text"
    THEN [ret |-> Ret("analyze_financial_data", "raise", "AttributeError", <<>>),
          data |-> tbl]                                            \* col.lower()
    ELSE
      LET amount_columns ==
              SelectSeq(cols, LAMBDA h : /\ any_term_in(AmountTerms, str_lower(h.s))
                                         /\ is_numeric_dtype(tbl, h))
          entry(h, v) == [key |-> h, val |-> v]
          tbl2 == with_dt_columns(tbl, cols, Len(cols))
          dcols == date_columns(tbl, cols, Len(cols))
          pairs == [p \in 1..(Len(dcols) * Len(amount_columns)) |->
                       [date_col |-> dcols[((p - 1) \div Len(amount_columns)) + 1],
                        amount_col |-> amount_columns[((p - 1) % Len(amount_columns)) + 1]]]
          RECURSIVE series(_)
          series(p) ==
              IF p = 0 THEN <<>>
              ELSE IF ~is_numeric_dtype(tbl2, pairs[p].amount_col)
                   THEN series(p - 1)          \* sum() raises, caught at line 185
                   ELSE LET md == monthly_data(Column(tbl2, pairs[p].date_col),
                                               Column(tbl2, pairs[p].amount_col))
                        IN  dict_set(series(p - 1),
                                     time_series_key(pairs[p].date_col, pairs[p].amount_col),
                                     [dates |-> [k \in 1..Len(md) |-> strftime_Ym(md[k].mo)],
                                      values |-> [k \in 1..Len(md) |-> md[k].sum]])
      IN  [ret |->
              Ret("analyze_financial_data", "return", "",
                  [amount_columns |-> amount_columns,
                   totals |-> [j \in 1..Len(amount_columns) |->
                       entry(amount_columns[j], series_sum(Column(tbl, amount_columns[j])))],
                   averages |-> [j \in 1..Len(amount_columns) |->
                       entry(amount_columns[j], series_mean(Column(tbl, amount_columns[j])))],
                   distributions |-> [j \in 1..Len(amount_columns) |->
                       entry(amount_columns[j],
                             [bins |-> bin_labels(dropna(Column(tbl, amount_columns[j]))),
                              counts |-> histogram(dropna(Column(tbl, amount_columns[j])))])],
                   has_time_series |-> dcols # <<>> /\ amount_columns # <<>>,
                   time_series |-> series(Len(pairs))]),
           data |-> tbl2]

analyze_financial_data ==
    LET r == AnalyzeFinancial(DataAfterLoad, ColumnsAfterLoad)
    IN  /\ data' = r.data
        /\ columns' = ColumnsAfterLoad
        /\ ret' = r.ret
        /\ earlier' = NoRet
        /\ attempts' = LoadAttempts
        /\ UNCHANGED <<summary, file, riskVars, webVars>>

(***************************************************************************)
(* Spreadsheets for analyze_financial_data.                                *)
(***************************************************************************)
H_Date == Header(<<"D", "a", "t", "e">>)
H_Date_dt == Header(<<"D", "a", "t", "e", "_", "d", "t">>)
H_Year == Header(<<"Y", "e", "a", "r">>)
H_Cost == Header(<<"C", "o", "s", "t">>)
H_LoanAmount == Header(<<"L", "o", "a", "n", " ", "A", "m", "o", "u", "n", "t">>)
H_Fee == Header(<<"f", "e", "e">>)

Jan24 == CDate(2024, 1)
Mar24 == CDate(2024, 3)
Dec23 == CDate(2023, 12)
NotADate == CText(<<"n", "/", "a">>)

\* the spreadsheets given to analyze_financial_data, the two large families
\* with at most max rows
FinancialFilesOf(max) ==
    Sheets(<<H_Date, H_Amount>>, <<{Jan24, Mar24}, {NA, CNum(1, 1), CNum(7, 1)}>>, max)
      \cup Sheets(<<H_Date, H_Amount>>, <<{NA, Jan24}, {NA, CNum(1, 1), CNum(7, 1)}>>, 2)
      \cup Sheets(<<H_LoanAmount>>,
                  <<{NA, CNum(0, 1), CNum(2, 1), CNum(5, 2), CNum(10, 1), CNum(-3, 1)}>>, max)
      \cup Sheets(<<H_Date, H_Amount, H_Fee>>,
                  <<{Dec23, NotADate}, {CNum(1, 1)}, {NA, CNum(3, 1)}>>, 2)
      \cup Sheets(<<H_Year, H_Cost>>, <<{NA, CNum(2023, 1), CNum(-1, 1)}, {CNum(5, 1)}>>, 2)
      \cup Sheets(<<H_Date, H_Date_dt, H_Amount>>,
                  <<{Jan24, Mar24}, {NotADate, Dec23}, {CNum(1, 1)}>>, 2)
      \cup Sheets(<<H_Region, H_Notes>>, <<{NA, Ann}, {NA, Bob}>>, 1)
      \cup Sheets(<<H_Amount, H_Notes>>, <<{Ann, CNum(1, 1)}, {NA, Bob}>>, 2)
      \cup Sheets(<<IntHeader(2024), H_Amount>>, <<{NA, CNum(1, 1)}, {NA, CNum(10, 1)}>>, 1)
      \cup {Unreadable}

FinancialFiles == FinancialFilesOf(MaxRows)

InitFinancial ==
    /\ file \in FinancialFiles
    /\ ProcessorInit
    /\ RiskIdle
    /\ WebIdle

NextFinancial == load_data \/ analyze_financial_data

SpecFinancial == InitFinancial /\ [][NextFinancial]_vars

FinancialReport ==
    /\ ret.op = "analyze_financial_data"
    /\ ret.outcome = "return"
    /\ ret.error = ""

RECURSIVE SumInts(_)
SumInts(q) == IF q = <<>> THEN 0 ELSE Head(q) + SumInts(Tail(q))

\* the cells of column h in the table as load_data read it
LoadedColumn(h) == Column(Loaded(file), h)

NonMissing(cells) == Cardinality({i \in 1..Len(cells) : cells[i].k # "na"})

\* C10: for every amount column analyze_financial_data reports, the counts of
\* its histogram sum to the number of non-missing values of the column (0 when
\* it has none).
C10_HistogramCountsSum ==
    FinancialReport =>
        \A j \in 1..Len(ret.value.amount_columns) :
            LET h == ret.value.amount_columns[j]
            IN  \E e \in 1..Len(ret.value.distributions) :
                    /\ ret.value.distributions[e].key = h
                    /\ Len(ret.value.distributions[e].val.counts) = bins
                    /\ SumInts(ret.value.distributions[e].val.counts)
                           = NonMissing(LoadedColumn(h))

\* an amount column with a missing value between its minimum and its maximum
C10_Witness ==
    /\ FinancialReport
    /\ ret.value.amount_columns = <<H_LoanAmount>>
    /\ LoadedColumn(H_LoanAmount) = <<CNum(10, 1), NA, CNum(2, 1)>>
    /\ ret.value.distributions[1].val.counts = <<1, 0, 0, 0, 1>>

\* d[key] of a dict kept as the sequence of its items
HasKey(d, key) == \E e \in 1..Len(d) : d[e].key = key
ValueAt(d, key) == d[CHOOSE e \in 1..Len(d) : d[e].key = key].val

\* the '<col>_dt' columns the last analyze_financial_data call took as
\* date_columns: made from a column of self.columns whose name has a date
\* term, and not missing in every row
ReportedDateColumns ==
    {Header(columns[j].s \o dt_suffix) : j \in
        {i \in 1..Len(columns) :
            /\ NameHasTerm(columns[i], DateTerms)
            /\ HasCol(data, Header(columns[i].s \o dt_suffix))
            /\ \E r \in 1..Len(data.rows) :
                   ~isna(Column(data, Header(columns[i].s \o dt_suffix))[r])}}

ReportedAmountColumns ==
    {ret.value.amount_columns[j] : j \in 1..Len(ret.value.amount_columns)}

\* the sum of a list of float results
RECURSIVE SumFloats(_)
SumFloats(q) == IF q = <<>> THEN RInt(0) ELSE RatAdd(Head(q).v, SumFloats(Tail(q)))

AllParsed(d) == \A r \in 1..Len(data.rows) : ~isna(Column(data, d)[r])

\* C11: for every (date column, amount column) pair with a monthly time series,
\* if every row's date parsed to a timestamp then the values of the series sum
\* to the total reported for the amount column.
C11_SeriesSumsToTotal ==
    FinancialReport =>
        \A d \in ReportedDateColumns : \A a \in ReportedAmountColumns :
            (/\ HasKey(ret.value.time_series, time_series_key(d, a))
             /\ AllParsed(d))
            => /\ HasKey(ret.value.totals, a)
               /\ ValueAt(ret.value.totals, a).k = "num"
               /\ SumFloats(ValueAt(ret.value.time_series,
                                    time_series_key(d, a)).values)
                      = ValueAt(ret.value.totals, a).v

\* dates in January and March of one year, every row dated, one amount missing:
\* the series has the empty February between them and sums to the total
C11_Witness ==
    /\ FinancialReport
    /\ file.headers = <<H_Date, H_Amount>>
    /\ LoadedColumn(H_Date) = <<Mar24, Jan24, Jan24>>
    /\ LoadedColumn(H_Amount) = <<CNum(7, 1), NA, CNum(1, 1)>>
    /\ ValueAt(ret.value.time_series, time_series_key(H_Date_dt, H_Amount)).values
           = <<FNum(RInt(1)), FNum(RInt(0)), FNum(RInt(7))>>
    /\ ValueAt(ret.value.totals, H_Amount) = FNum(RInt(8))

\* the calendar months of the rows of date column d
MonthsOf(d) ==
    {Column(data, d)[r].mo : r \in {i \in 1..Len(data.rows) : ~isna(Column(data, d)[i])}}

\* the labels 'YYYY-MM' of the months of a set
LabelsOf(ms) == {strftime_Ym(m) : m \in ms}

StrictlyIncreasing(labels) ==
    \A k \in 1..(Len(labels) - 1) : str_less(labels[k], labels[k + 1])

\* the time series a report holds for the pair (d, a), when it holds one
SeriesOf(d, a) == ValueAt(ret.value.time_series, time_series_key(d, a))

HasSeries(d, a) == HasKey(ret.value.time_series, time_series_key(d, a))

\* C12 as stated: every period of a monthly time series is the 'YYYY-MM' label
\* of a calendar month in which the date column has a row (no month without a
\* row is emitted), and the periods are in strictly increasing order.
C12_OnlyMonthsWithRows ==
    FinancialReport =>
        \A d \in ReportedDateColumns : \A a \in ReportedAmountColumns :
            HasSeries(d, a) =>
                /\ \A k \in 1..Len(SeriesOf(d, a).dates) :
                       SeriesOf(d, a).dates[k] \in LabelsOf(MonthsOf(d))
                /\ StrictlyIncreasing(SeriesOf(d, a).dates)

\* C12 amended: the periods of a monthly time series are the 'YYYY-MM' labels
\* of every calendar month from the first to the last month in which the date
\* column has a row, months without a row included (their value is 0), in
\* strictly increasing order.
C12_EveryMonthFirstToLast ==
    FinancialReport =>
        \A d \in ReportedDateColumns : \A a \in ReportedAmountColumns :
            HasSeries(d, a) =>
                LET ms == MonthsOf(d)
                    s == SeriesOf(d, a)
                    first == CHOOSE m \in ms : \A x \in ms : m <= x
                    last == CHOOSE m \in ms : \A x \in ms : x <= m
                IN  /\ {s.dates[k] : k \in 1..Len(s.dates)} = LabelsOf(first..last)
                    /\ StrictlyIncreasing(s.dates)
                    /\ Len(s.values) = Len(s.dates)
                    /\ \A k \in 1..Len(s.dates) :
                           s.dates[k] \notin LabelsOf(ms) => s.values[k] = FNum(RInt(0))

\* rows in January and March 2024 only: February is emitted, with value 0
C12_Witness ==
    /\ FinancialReport
    /\ file.headers = <<H_Date, H_Amount>>
    /\ MonthsOf(H_Date_dt) = {Jan24.mo, Mar24.mo}
    /\ SeriesOf(H_Date_dt, H_Amount).dates =
           <<strftime_Ym(Jan24.mo), strftime_Ym(Jan24.mo + 1), strftime_Ym(Mar24.mo)>>
    /\ SeriesOf(H_Date_dt, H_Amount).values[2] = FNum(RInt(0))

(***************************************************************************)
(* ExcelProcessor.get_basic_stats, detect_data_types and get_summary       *)
(***************************************************************************)
SampleRows == 5

\* numbers in increasing order
RECURSIVE InsertRat(_, _)
InsertRat(sorted, x) ==
    IF sorted = <<>> THEN <<x>>
    ELSE IF RatLt(x, Head(sorted)) THEN <<x>> \o sorted
    ELSE <<Head(sorted)>> \o InsertRat(Tail(sorted), x)

RECURSIVE SortRats(_)
SortRats(cells) ==
    IF cells = <<>> THEN <<>>
    ELSE InsertRat(SortRats(Tail(cells)), CellRat(Head(cells)))

\* Series.median(): the middle value of the non-missing ones, the mean of the
\* two middle values when their number is even, NaN when there is none
series_median(cells) ==
    LET v == SortRats(dropna(cells))
        n == Len(v)
    IN  IF n = 0 THEN FNaN
        ELSE IF n % 2 = 1 THEN FNum(v[(n + 1) \div 2])
        ELSE FNum(RatDiv(RatAdd(v[n \div 2], v[(n \div 2) + 1]), RInt(2)))

RECURSIVE SumSquares(_, _)
SumSquares(cells, m) ==
    IF cells = <<>> THEN RInt(0)
    ELSE RatAdd(RatMul(RatSub(CellRat(Head(cells)), m), RatSub(CellRat(Head(cells)), m)),
                SumSquares(Tail(cells), m))

\* a float that is the square root of v
FSqrt(v) == [k |-> "sqrt", v |-> v]

\* Series.std(): the square root of the sample variance (ddof = 1) of the
\* non-missing values, NaN when there are fewer than two
series_std(cells) ==
    LET v == dropna(cells)
        n == Len(v)
    IN  IF n < 2 THEN FNaN
        ELSE FSqrt(RatDiv(SumSquares(v, RatDiv(SumRat(v), RInt(n))), RInt(n - 1)))

\* int(self.data[col].isna().sum())
missing_count(cells) == Cardinality({i \in 1..Len(cells) : isna(cells[i])})

\* self.data.select_dtypes(include=[np.number]).columns
numeric_columns(tbl) == SelectSeq(tbl.headers, LAMBDA h : is_numeric_dtype(tbl, h))

get_basic_stats(tbl) ==
    IF ~tbl.loaded THEN <<>>
    ELSE LET nc == numeric_columns(tbl)
         IN  [j \in 1..Len(nc) |->
                [key |-> nc[j],
                 val |-> [mean |-> series_mean(Column(tbl, nc[j])),
                          median |-> series_median(Column(tbl, nc[j])),
                          min |-> series_min(Column(tbl, nc[j])),
                          max |-> series_max(Column(tbl, nc[j])),
                          std |-> series_std(Column(tbl, nc[j])),
                          missing |-> missing_count(Column(tbl, nc[j]))]]]

\* pd.api.types.is_datetime64_dtype(self.data[h])
is_datetime64_dtype(tbl, h) == tbl.dtypes[ColIndex(tbl, h)] = "datetime"

\* a test that takes a missing value for a value that is no whole number
all_integral_no_dropna(cells) ==
    \A i \in 1..Len(cells) :
        ~isna(cells[i]) /\ RatEq(CellRat(cells[i]), RInt(Trunc(CellRat(cells[i]))))

\* all(s.dropna() == s.dropna().astype(int)): astype(int) truncates toward zero
all_integral(cells) ==
    \A i \in 1..Len(dropna(cells)) :
        RatEq(CellRat(dropna(cells)[i]), RInt(Trunc(CellRat(dropna(cells)[i]))))

column_type(tbl, h) ==
    IF is_numeric_dtype(tbl, h)
    THEN (IF all_integral(Column(tbl, h)) THEN "integer" ELSE "float")
    ELSE IF is_datetime64_dtype(tbl, h) THEN "datetime"
    ELSE "string"

detect_data_types(tbl, cols) ==
    IF ~tbl.loaded THEN <<>>
    ELSE [j \in 1..Len(cols) |-> [key |-> cols[j], val |-> column_type(tbl, cols[j])]]

\* fillna(''): a missing cell becomes the empty string
EmptyText == CText(<<>>)
fillna(c) == IF isna(c) THEN EmptyText ELSE c

\* sample rows given only while self.summary is still empty
sample_data_once(tbl) ==
    IF summary # <<>> THEN <<>>
    ELSE [i \in 1..(IF Len(tbl.rows) < SampleRows THEN Len(tbl.rows) ELSE SampleRows) |->
            [j \in 1..Len(tbl.headers) |->
                [key |-> tbl.headers[j], val |-> fillna(tbl.rows[i][j])]]]

\* self.data.head(5).fillna('').to_dict('records'): one mapping from column
\* label to cell for each of the first five rows
sample_data(tbl) ==
    LET n == IF Len(tbl.rows) < SampleRows THEN Len(tbl.rows) ELSE SampleRows
    IN  [i \in 1..n |->
            [j \in 1..Len(tbl.headers) |->
                [key |-> tbl.headers[j], val |-> fillna(tbl.rows[i][j])]]]

\* the body of get_summary on the loaded table
GetSummary(tbl, cols) ==
    IF ~tbl.loaded
    THEN Ret("get_summary", "return", "Failed to load data", <<>>)
    ELSE Ret("get_summary", "return", "",
             [rows |-> Len(tbl.rows),
              columns |-> Len(cols),
              column_names |-> cols,
              statistics |-> get_basic_stats(tbl),
              data_types |-> detect_data_types(tbl, cols),
              missing_values |->
                  [j \in 1..Len(cols) |->
                      [key |-> cols[j], val |-> missing_count(Column(tbl, cols[j]))]],
              sample_data |-> sample_data(tbl)])

get_summary ==
    /\ data' = DataAfterLoad
    /\ columns' = ColumnsAfterLoad
    /\ ret' = GetSummary(DataAfterLoad, ColumnsAfterLoad)
    /\ summary' = IF DataAfterLoad.loaded
                  THEN GetSummary(DataAfterLoad, ColumnsAfterLoad).value
                  ELSE summary
    /\ earlier' = IF ret.op = "get_summary" THEN ret ELSE NoRet
    /\ attempts' = LoadAttempts
    /\ UNCHANGED <<file, riskVars, webVars>>

(***************************************************************************)
(* One ExcelProcessor on one spreadsheet, its four methods called in any   *)
(* order and any number of times.                                          *)
(***************************************************************************)
LongRows == SampleRows + 1

MaxExcelRows == 2

H_Price == Header(<<"P", "r", "i", "c", "e">>)

ExcelFiles ==
    FinancialFilesOf(MaxExcelRows)
      \cup Sheets(<<H_Agent, H_Commission>>,
                  <<{NA, Ann, Bob}, {NA, CNum(10, 1), CNum(5, 2)}>>, 2)
      \cup Sheets(<<H_Agent, H_BonusNote>>, <<{Ann}, {NA, Cy}>>, 2)
      \cup Sheets(<<H_Price>>, <<{CNum(1, 1), CNum(5, 2)}>>, LongRows)
      \cup Sheets(<<H_Price, H_Fee>>, <<{CNum(1, 1), CNum(5, 2), CNum(-5, 2)}, {NA}>>, 2)

InitExcel ==
    /\ file \in ExcelFiles
    /\ ProcessorInit
    /\ RiskIdle
    /\ WebIdle

NextExcel ==
    \/ load_data
    \/ get_summary
    \/ analyze_financial_data
    \/ extract_commission_data

SpecExcel == InitExcel /\ [][NextExcel]_vars

SummaryReport == ret.op = "get_summary" /\ ret.outcome = "return" /\ ret.error = ""

\* C13: a get_summary call that follows a get_summary call on the same
\* processor returns the report the first call returned: the same rows,
\* columns, column_names, statistics, data_types, missing_values and
\* sample_data.
C13_SummaryTwiceSame ==
    (ret.op = "get_summary" /\ earlier # NoRet) =>
        /\ ret.outcome = earlier.outcome
        /\ ret.error = earlier.error
        /\ ret.value = earlier.value

\* two calls in a row on a sheet with a missing amount in a dated row
C13_Witness ==
    /\ SummaryReport
    /\ earlier = ret
    /\ file.headers = <<H_Date, H_Amount>>
    /\ ret.value.rows = 2
    /\ ret.value.sample_data[1] =
           <<[key |-> H_Date, val |-> Jan24], [key |-> H_Amount, val |-> EmptyText]>>
    /\ ret.value.statistics[1].val.missing = 1

WholeNumber(c) == c.k = "num" /\ c.d = 1

\* C14: detect_data_types gives a numeric column 'integer' if and only if every
\* non-missing value of it is a whole number, and 'float' otherwise; a numeric
\* column with no value at all is 'integer'.
C14_IntegerIffAllWhole ==
    SummaryReport =>
        \A j \in 1..Len(columns) :
            is_numeric_dtype(data, columns[j]) =>
                LET cells == Column(data, columns[j])
                    type == ValueAt(ret.value.data_types, columns[j])
                    whole == \A i \in 1..Len(cells) : isna(cells[i]) \/ WholeNumber(cells[i])
                IN  /\ type \in {"integer", "float"}
                    /\ (type = "integer") <=> whole
                    /\ (\A i \in 1..Len(cells) : isna(cells[i])) => type = "integer"

\* a column holding 1 and -2.5 is 'float', an empty numeric column 'integer'
C14_Witness ==
    /\ SummaryReport
    /\ file.headers = <<H_Price, H_Fee>>
    /\ Column(data, H_Price) = <<CNum(1, 1), CNum(-5, 2)>>
    /\ Column(data, H_Fee) = <<NA, NA>>
    /\ ret.value.data_types =
           <<[key |-> H_Price, val |-> "float"], [key |-> H_Fee, val |-> "integer"]>>

\* the rows of the agent reported under `key`, and those of them that have a
\* commission value
GroupRows(key) ==
    LET by == Column(data, ret.value.agent_column)
    IN  {i \in 1..Len(by) : ~isna(by[i]) /\ agent_str(by[i], by) = key}

ValuedRows(key) ==
    {i \in GroupRows(key) : ~isna(Column(data, ret.value.commission_column)[i])}

\* the sum of the commission values of a set of rows
RECURSIVE SumRows(_)
SumRows(rows) ==
    IF rows = {} THEN RInt(0)
    ELSE LET i == CHOOSE r \in rows : TRUE
         IN  RatAdd(CellRat(Column(data, ret.value.commission_column)[i]),
                    SumRows(rows \ {i}))

\* C15: for every agent group reported, total, average, count, max and min are
\* taken over the rows of the group that have a commission value: total is
\* their sum, commission_count their number (not the number of rows of the
\* group), average total/count, max and min among their values.
C15_AggregatesOverValuedRows ==
    CommissionReport =>
        \A e \in 1..Len(ret.value.agent_commissions) :
            LET key == ret.value.agent_commissions[e].key
                g == ret.value.agent_commissions[e].val
                of == Column(data, ret.value.commission_column)
                n == Cardinality(ValuedRows(key))
            IN  /\ g.total_commission = FNum(SumRows(ValuedRows(key)))
                /\ g.commission_count = n
                /\ n > 0 =>
                      /\ g.average_commission =
                             FNum(RatDiv(SumRows(ValuedRows(key)), RInt(n)))
                      /\ \E i \in ValuedRows(key) : g.max_commission = FNum(CellRat(of[i]))
                      /\ \E i \in ValuedRows(key) : g.min_commission = FNum(CellRat(of[i]))
                      /\ \A i \in ValuedRows(key) :
                            /\ RatLe(CellRat(of[i]), g.max_commission.v)
                            /\ RatLe(g.min_commission.v, CellRat(of[i]))

\* C16: get_summary, analyze_financial_data, extract_commission_data and
\* analyze_loan_risk end, on every input, by returning a value (a result or an
\* error result): none of them lets an exception out to its caller.
C16_NoExceptionEscapes ==
    /\ ret.op \in {"get_summary", "analyze_financial_data", "extract_commission_data"}
           => ret.outcome = "return"
    /\ Called => risk_result.outcome = "return"

\* C17: after any sequence of get_summary, analyze_financial_data and
\* extract_commission_data calls the table has the columns and the cell values
\* it had right after load_data, and get_summary returns the report it returns
\* on the table as loaded, whether or not analyze_financial_data ran before it.
C17_AnalysisLeavesTableAlone ==
    /\ data.loaded =>
          /\ data.headers = Loaded(file).headers
          /\ data.rows = Loaded(file).rows
    /\ SummaryReport => ret.value = GetSummary(Loaded(file), file.headers).value

\* C18: when the spreadsheet cannot be opened or parsed, load_data returns
\* False without raising and the table stays unset, and get_summary,
\* analyze_financial_data and extract_commission_data each return the error
\* result 'Failed to load data', having tried the load once in that call.
C18_UnreadableFileIsLoadError ==
    ~file.readable =>
        /\ ~data.loaded
        /\ ret.op = "load_data" =>
              (ret.outcome = "return" /\ ret.value = FALSE /\ attempts = 1)
        /\ ret.op \in {"get_summary", "analyze_financial_data", "extract_commission_data"} =>
              /\ ret.outcome = "return"
              /\ ret.error = "Failed to load data"
              /\ attempts = 1

\* a second get_summary on the unreadable file: it tried the load again, once
C18_Witness ==
    /\ ~file.readable
    /\ ret = Ret("get_summary", "return", "Failed to load data", <<>>)
    /\ earlier = ret
    /\ attempts = 1
    /\ ~data.loaded

\* the keys of the mapping a method returned: 'error' alone for an error
\* result, the entries of the report otherwise
ResultKeys(r) == IF r.error # "" THEN {"error"} ELSE DOMAIN r.value

NotApplicable ==
    /\ ExtractReturned
    /\ ret.error = "Could not identify agent or commission columns"

\* C19: the result extract_commission_data returns when the agent or the
\* commission column is absent is not the kind of value it returns on a
\* failure: it is no exception, and it is not a mapping with the keys of the
\* result returned when the table could not be loaded.
C19_NotApplicableIsNoFailure ==
    NotApplicable =>
        ResultKeys(ret) # ResultKeys(ExtractCommission(NoData, <<>>))

\* C20: top_performers has min(5, number of agent groups) entries, each an
\* agent of agent_commissions with the total (and average) it has there, in
\* order of non-increasing total, and no agent left out of it has a total
\* larger than that of an agent in it.
C20_TopPerformersAreTheBest ==
    CommissionReport =>
        LET top == ret.value.top_performers
            all == ret.value.agent_commissions
        IN  /\ Len(top) = (IF Len(all) < 5 THEN Len(all) ELSE 5)
            /\ \A i, j \in 1..Len(top) : top[i].key = top[j].key => i = j
            /\ \A i \in 1..Len(top) :
                  /\ HasKey(all, top[i].key)
                  /\ top[i].val.total_commission =
                         ValueAt(all, top[i].key).total_commission
                  /\ top[i].val.average_commission =
                         ValueAt(all, top[i].key).average_commission
            /\ \A i, j \in 1..Len(top) :
                  i < j => RatLe(top[j].val.total_commission.v,
                                 top[i].val.total_commission.v)
            /\ \A e \in 1..Len(all) : \A i \in 1..Len(top) :
                  ~InTop(all[e].key) =>
                      RatLe(all[e].val.total_commission.v,
                            top[i].val.total_commission.v)

\* six agents, the one whose group comes last has the largest total: it is
\* first of the five, and an agent of a smaller total is left out
C20_Witness ==
    /\ CommissionReport
    /\ Len(ret.value.agent_commissions) = 6
    /\ Len(ret.value.top_performers) = 5
    /\ ret.value.top_performers[1].key = ret.value.agent_commissions[6].key
    /\ ret.value.top_performers[1].val.total_commission = FNum(RInt(20))
    /\ \E e \in 1..6 :
          /\ ~InTop(ret.value.agent_commissions[e].key)
          /\ ret.value.agent_commissions[e].val.total_commission = FNum(RInt(10))

\* C21: the column extract_commission_data reports as commission_column is a
\* numeric column of the table, and the method never aggregates a column that
\* is not numeric: it never ends in the ValueError that float() of a sum of
\* text raises.
C21_CommissionColumnIsNumeric ==
    /\ CommissionReport => is_numeric_dtype(data, ret.value.commission_column)
    /\ ~(ret.op = "extract_commission_data" /\ ret.outcome = "raise"
           /\ ret.error = "ValueError")

\* the first column of the table, in column order, whose name has one of the terms
FirstNamed(terms) ==
    columns[CHOOSE j \in 1..Len(columns) :
                /\ NameHasTerm(columns[j], terms)
                /\ \A i \in 1..(j - 1) : ~NameHasTerm(columns[i], terms)]

\* C22: when several columns match the agent terms or several match the
\* commission terms, the report names as agent_column and commission_column
\* the first matching column of each role in the table's column order, and
\* those two columns are the ones used: every agent reported is a value of
\* that agent column and its total is the sum of that commission column over
\* the rows of that value.
C22_FirstMatchInColumnOrder ==
    CommissionReport =>
        LET by == Column(data, FirstNamed(AgentTerms))
            of == Column(data, FirstNamed(CommissionTerms))
        IN  /\ ret.value.agent_column = FirstNamed(AgentTerms)
            /\ ret.value.commission_column = FirstNamed(CommissionTerms)
            /\ \A e \in 1..Len(ret.value.agent_commissions) :
                  \E i \in 1..Len(by) :
                      /\ ~isna(by[i])
                      /\ agent_str(by[i], by) = ret.value.agent_commissions[e].key
                      /\ ret.value.agent_commissions[e].val.total_commission =
                             FNum(SumRat(dropna(group_cells(by, of, by[i]))))

\* two columns match each role: 'Staff Name' and 'PAYOUT' come before 'Agent'
\* and 'Commission' and are the ones used
C22_Witness ==
    /\ CommissionReport
    /\ columns = <<H_StaffName, H_PAYOUT, H_Agent, H_Commission>>
    /\ data.rows = <<<<Ann, CNum(5, 2), Cy, CNum(10, 1)>>, <<Bob, NA, Cy, CNum(10, 1)>>>>
    /\ ret.value.agent_column = H_StaffName
    /\ ret.value.commission_column = H_PAYOUT
    /\ ret.value.total_commissions = FNum(Rat(5, 2))
    /\ Len(ret.value.agent_commissions) = 2

\* the least and the largest of the non-missing values of a column
LeastOf(cells) ==
    CHOOSE x \in {CellRat(c) : c \in {cells[i] : i \in 1..Len(cells)} \ {NA}} :
        \A i \in 1..Len(cells) : isna(cells[i]) \/ RatLe(x, CellRat(cells[i]))

LargestOf(cells) ==
    CHOOSE x \in {CellRat(c) : c \in {cells[i] : i \in 1..Len(cells)} \ {NA}} :
        \A i \in 1..Len(cells) : isna(cells[i]) \/ RatLe(CellRat(cells[i]), x)

\* dist has 5 bins and 5 counts, the bins of equal width from lo to hi and
\* labelled by their two ends, the count of a bin the number of values of
\* cells in [low, high), for the last bin in [low, hi]
BinsOver(lo, hi, cells, dist) ==
    LET edge(b) == RatAdd(lo, RatDiv(RatMul(RInt(b), RatSub(hi, lo)), RInt(5)))
    IN  /\ Len(dist.bins) = 5
        /\ Len(dist.counts) = 5
        /\ \A b \in 1..5 :
              /\ dist.bins[b] = fmt2(edge(b - 1)) \o <<"-">> \o fmt2(edge(b))
              /\ dist.counts[b] =
                     Cardinality({i \in 1..Len(cells) :
                         /\ ~isna(cells[i])
                         /\ RatLe(edge(b - 1), CellRat(cells[i]))
                         /\ \/ RatLt(CellRat(cells[i]), edge(b))
                            \/ (b = 5 /\ RatEq(CellRat(cells[i]), hi))})

DistributionOf(h) == ValueAt(ret.value.distributions, h)

\* C23 as stated: for every amount column that has a value, the 5 bins span
\* the least to the largest non-missing value, a value is counted in the bin
\* whose [low, high) holds it and the largest value in the last bin.
C23_BinsSpanMinToMax ==
    FinancialReport =>
        \A j \in 1..Len(ret.value.amount_columns) :
            LET h == ret.value.amount_columns[j]
                cells == LoadedColumn(h)
            IN  /\ HasKey(ret.value.distributions, h)
                /\ NonMissing(cells) > 0 =>
                      BinsOver(LeastOf(cells), LargestOf(cells), cells, DistributionOf(h))

\* C23: for every amount column there are 5 equal-width bins and 5 counts,
\* each value counted in the bin whose [low, high) holds it and a value equal
\* to the upper end in the last bin.  The bins span the least to the largest
\* non-missing value when these differ; when all values are one value v they
\* span v - 0.5 to v + 0.5 (and the values fall in the third bin); when the
\* column has no value they span 0 to 1 and every count is 0.
C23_BinsSpanWidenedRange ==
    FinancialReport =>
        \A j \in 1..Len(ret.value.amount_columns) :
            LET h == ret.value.amount_columns[j]
                cells == LoadedColumn(h)
            IN  /\ HasKey(ret.value.distributions, h)
                /\ IF NonMissing(cells) = 0
                   THEN BinsOver(RInt(0), RInt(1), cells, DistributionOf(h))
                   ELSE IF LeastOf(cells) = LargestOf(cells)
                   THEN /\ BinsOver(RatSub(LeastOf(cells), Rat(1, 2)),
                                    RatAdd(LeastOf(cells), Rat(1, 2)),
                                    cells, DistributionOf(h))
                        /\ DistributionOf(h).counts[3] = NonMissing(cells)
                   ELSE BinsOver(LeastOf(cells), LargestOf(cells), cells,
                                 DistributionOf(h))

\* a column whose one value is 2: bins from 1.5 to 2.5, the value in the third
C23_Witness ==
    /\ FinancialReport
    /\ ret.value.amount_columns = <<H_LoanAmount>>
    /\ LoadedColumn(H_LoanAmount) = <<CNum(2, 1), NA, CNum(2, 1)>>
    /\ DistributionOf(H_LoanAmount).counts = <<0, 0, 2, 0, 0>>
    /\ DistributionOf(H_LoanAmount).bins[1] = <<"1", ".", "5", "0", "-", "1", ".", "7", "0">>

\* the columns of the loaded table the last analyze_financial_data call took
\* for date columns, under the names they have in the table
DateColumnNames ==
    {columns[j] : j \in
        {i \in 1..Len(columns) :
            /\ NameHasTerm(columns[i], DateTerms)
            /\ Header(columns[i].s \o dt_suffix) \in ReportedDateColumns}}

\* '<date column name>_<amount column name>_monthly'
PairKey(d, a) ==
    d.s \o <<"_">> \o a.s \o <<"_", "m", "o", "n", "t", "h", "l", "y">>

\* C24: the keys of time_series are the texts
\* '<date column name>_<amount column name>_monthly' of the (date column,
\* amount column) pairs, the date column named character for character as in
\* the loaded table (also when its name contains '_dt'), and there are as many
\* keys as pairs: two pairs never share a key.
C24_KeysNameTheirPair ==
    (FinancialReport /\ ret.value.has_time_series) =>
        /\ {ret.value.time_series[e].key : e \in 1..Len(ret.value.time_series)}
               = {PairKey(d, a) : d \in DateColumnNames, a \in ReportedAmountColumns}
        /\ Len(ret.value.time_series)
               = Cardinality(DateColumnNames) * Cardinality(ReportedAmountColumns)

\* column h of the loaded table is numeric and its lowercased name contains
\* one of the amount terms
IsAmountColumn(h) ==
    /\ NameHasTerm(h, AmountTerms)
    /\ infer_dtype(LoadedColumn(h)) = "numeric"

KeysOf(d) == [e \in 1..Len(d) |-> d[e].key]

\* C25: amount_columns lists, in the table's column order and once each, the
\* columns that are numeric and whose lowercased name contains one of the
\* amount terms, and no other column; totals, averages and distributions have
\* exactly those columns as keys.
C25_AmountColumnsAreTheNumericNamed ==
    FinancialReport =>
        LET ac == ret.value.amount_columns
        IN  /\ \A j \in 1..Len(columns) :
                  IsAmountColumn(columns[j]) <=> \E i \in 1..Len(ac) : ac[i] = columns[j]
            /\ \A i \in 1..Len(ac) : \E j \in 1..Len(columns) : ac[i] = columns[j]
            /\ \A i, k \in 1..Len(ac) :
                  i < k => ColIndex(Loaded(file), ac[i]) < ColIndex(Loaded(file), ac[k])
            /\ KeysOf(ret.value.totals) = ac
            /\ KeysOf(ret.value.averages) = ac
            /\ KeysOf(ret.value.distributions) = ac

\* a table with a date column and two amount columns, one of them without a
\* value in one row
C25_Witness ==
    /\ FinancialReport
    /\ columns = <<H_Date, H_Amount, H_Fee>>
    /\ LoadedColumn(H_Fee) = <<NA, CNum(3, 1)>>
    /\ ret.value.amount_columns = <<H_Amount, H_Fee>>
    /\ KeysOf(ret.value.totals) = <<H_Amount, H_Fee>>

\* C26: total_commissions is the sum of the commission column over the rows
\* whose agent value is not missing, also when two different agent values
\* have the same text form: every such row is counted in one entry of
\* agent_commissions.
C26_TotalOverRowsWithAgent ==
    CommissionReport =>
        LET by == Column(data, ret.value.agent_column)
            of == Column(data, ret.value.commission_column)
        IN  /\ ret.value.total_commissions =
                   FNum(SumRat(dropna([i \in 1..Len(of) |->
                                          IF isna(by[i]) THEN NA ELSE of[i]])))
            /\ SumInts([e \in 1..Len(ret.value.agent_commissions) |->
                           ret.value.agent_commissions[e].val.commission_count])
                   = NonMissing(by)

(***************************************************************************)
(* The routes that write loans and payments.  A request is served in one   *)
(* step: the handler runs from its first line to its response, on the      *)
(* tables as the request before it left them.  Every request comes from a  *)
(* logged-in user of the fixed table of users: two clients, one with a     *)
(* phone number and one without, and an admin.  Twilio is configured and   *)
(* takes every message it is handed.  A commit fails when a row holds None *)
(* in a column declared nullable=False.  The clock `now` counts the        *)
(* requests; a timestamp is the number of the request that wrote it, 0 is  *)
(* None.                                                                   *)
(***************************************************************************)
MaxRequests == 4

users ==
    <<[role |-> "client", phone_number |-> TRUE],
      [role |-> "client", phone_number |-> FALSE],
      [role |-> "admin", phone_number |-> TRUE]>>

Clients == {u \in 1..Len(users) : users[u].role = "client"}
Admins == {u \in 1..Len(users) : users[u].role = "admin"}

\* User.is_admin
is_admin(u) == users[u].role = "admin"

\* the request, its response and the tables as the request found them
Served(op, u, loan_id, body, code, message) ==
    [op |-> op, user |-> u, loan_id |-> loan_id, body |-> body,
     code |-> code, message |-> message,
     before |-> [loans |-> loans, payments |-> payments,
                 activities |-> activities, sms |-> sms]]

\* send_message: Twilio takes the message (the call raises nothing)
send_message(kind, u, loan_id) ==
    Append(sms, [kind |-> kind, to |-> u, loan_id |-> loan_id, at |-> now + 1])

\* a column declared nullable=False refuses None at commit
not_null(v) == v.k # "null"

(***************************************************************************)
(* client_routes.create_loan                                               *)
(***************************************************************************)
NoLoanBody ==
    [mapping |-> FALSE, amount |-> Absent, interest_rate |-> Absent,
     term_months |-> Absent, purpose |-> Absent]

LoanBody(amount, purpose) ==
    [mapping |-> TRUE, amount |-> amount, interest_rate |-> Num(10, 1),
     term_months |-> Num(12, 1), purpose |-> purpose]

\* a complete application, one without a purpose, one whose amount is null,
\* and a body that is no JSON object
CreateBodies ==
    {LoanBody(Num(5000, 1), Text), LoanBody(Num(5000, 1), Absent), LoanBody(Null, Text),
     NoLoanBody}

create_loan ==
    /\ now < MaxRequests
    /\ \E u \in Clients, body \in CreateBodies :
          LET missing == \/ body.amount.k = "absent"
                         \/ body.interest_rate.k = "absent"
                         \/ body.term_months.k = "absent"
                         \/ body.purpose.k = "absent"
              new_loan == [user_id |-> u, amount |-> body.amount,
                           interest_rate |-> body.interest_rate,
                           term_months |-> body.term_months,
                           status |-> "pending", approved_at |-> 0]
              committed == /\ body.mapping
                           /\ ~missing
                           /\ not_null(body.amount)
                           /\ not_null(body.interest_rate)
                           /\ not_null(body.term_months)
              risk_analysis == LoanRiskResult(body)
              code == IF ~body.mapping THEN 500          \* `field not in None`
                      ELSE IF missing THEN 400
                      ELSE IF ~committed THEN 500
                      ELSE IF risk_analysis.outcome = "raise" THEN 500
                      ELSE 201
              message == CASE code = 400 -> "Missing required field"
                           [] code = 500 -> "Failed to create loan application"
                           [] code = 201 -> "Loan application submitted successfully"
          IN  /\ loans' = IF committed THEN Append(loans, new_loan) ELSE loans
              /\ activities' =
                     IF committed
                     THEN Append(activities,
                                 [user_id |-> u, activity_type |-> "loan_application"])
                     ELSE activities
              /\ request' = Served("create_loan", u,
                                   IF committed THEN Len(loans) + 1 ELSE 0,
                                   body, code, message)
    /\ now' = now + 1
    /\ UNCHANGED <<payments, sms, riskVars, excelVars>>

(***************************************************************************)
(* admin_routes.update_loan                                                *)
(***************************************************************************)
StatusField(k, s) == [k |-> k, s |-> s]

NoStatus == StatusField("absent", "")

\* the statuses update_loan takes, with one more
statuses_with_cancelled ==
    <<"pending", "approved", "rejected", "active", "completed", "cancelled">>

\* ['pending', 'approved', 'rejected', 'active', 'completed']
statuses == <<"pending", "approved", "rejected", "active", "completed">>

StatusInputs ==
    {NoStatus} \cup
    {StatusField("text", s) : s \in {"approved", "rejected", "active", "cancelled"}}

NoUpdateBody ==
    [mapping |-> FALSE, status |-> NoStatus, interest_rate |-> Absent,
     term_months |-> Absent]

\* a status or none, with no terms, with new terms, or with a null rate; and
\* a body that is no JSON object
UpdateBodies ==
    {[mapping |-> TRUE, status |-> s, interest_rate |-> t[1], term_months |-> t[2]] :
        s \in StatusInputs,
        t \in {<<Absent, Absent>>, <<Num(7, 1), Num(24, 1)>>, <<Null, Absent>>}}
      \cup {NoUpdateBody}

\* the admin with every body on every loan and on a loan that does not exist,
\* a client with one body
UpdateRequests ==
    {<<u, loan_id, body>> : u \in Admins, loan_id \in 1..(Len(loans) + 1),
                            body \in UpdateBodies}
      \cup {<<u, 1, [mapping |-> TRUE, status |-> StatusField("text", "approved"),
                     interest_rate |-> Absent, term_months |-> Absent]>> : u \in Clients}

update_loan ==
    /\ now < MaxRequests
    /\ \E r \in UpdateRequests :
          LET u == r[1]
              loan_id == r[2]
              body == r[3]
              found == loan_id \in 1..Len(loans)
              loan == loans[loan_id]
              has_status == body.status.k # "absent"
              new_status == body.status.s
              invalid == has_status /\ \A i \in 1..Len(statuses) : statuses[i] # new_status
              reached == is_admin(u) /\ found /\ body.mapping /\ ~invalid
              becomes_approved ==
                  reached /\ has_status /\ loan.status # "approved" /\ new_status = "approved"
              notify == becomes_approved /\ users[loan.user_id].phone_number
              updated ==
                  [loan EXCEPT
                     !.status = IF has_status THEN new_status ELSE @,
                     !.approved_at = IF becomes_approved THEN now + 1 ELSE @,
                     !.interest_rate =
                         IF body.interest_rate.k # "absent" THEN body.interest_rate ELSE @,
                     !.term_months =
                         IF body.term_months.k # "absent" THEN body.term_months ELSE @]
              committed == /\ reached
                           /\ not_null(updated.interest_rate)
                           /\ not_null(updated.term_months)
              code == IF ~is_admin(u) THEN 403
                      ELSE IF ~found THEN 404
                      ELSE IF ~body.mapping THEN 500     \* `'status' in None`
                      ELSE IF invalid THEN 400
                      ELSE IF ~committed THEN 500
                      ELSE 200
              message == CASE code = 403 -> "Admin access required"
                           [] code = 404 -> "Loan not found"
                           [] code = 400 -> "Invalid loan status"
                           [] code = 500 -> "Failed to update loan"
                           [] code = 200 -> "Loan updated successfully"
          IN  /\ sms' = IF notify
                        THEN send_message("loan_approval", loan.user_id, loan_id)
                        ELSE sms
              /\ loans' = IF committed THEN [loans EXCEPT ![loan_id] = updated] ELSE loans
              /\ request' = Served("update_loan", u, loan_id, body, code, message)
    /\ now' = now + 1
    /\ UNCHANGED <<payments, activities, riskVars, excelVars>>

(***************************************************************************)
(* client_routes.make_payment                                              *)
(***************************************************************************)
\* a test that takes no loan for non-active
never_non_active(loan) == FALSE

\* loan.status != 'active'
non_active(loan) == loan.status # "active"

NoPaymentBody == [mapping |-> FALSE, loan_id |-> Absent, amount |-> Absent]

\* a payment, or one of null amount, on each of the n loans and on a loan
\* that does not exist; a body without loan_id, one without amount, and a
\* body that is no JSON object
PaymentBodies(n) ==
    [mapping : {TRUE}, loan_id : {Num(i, 1) : i \in 1..(n + 1)},
     amount : {Null, Num(50, 1)}]
      \cup {[mapping |-> TRUE, loan_id |-> Absent, amount |-> Num(50, 1)],
            [mapping |-> TRUE, loan_id |-> Num(1, 1), amount |-> Absent],
            NoPaymentBody}

make_payment ==
    /\ now < MaxRequests
    /\ \E u \in Clients, body \in PaymentBodies(Len(loans)) :
          LET missing == body.loan_id.k = "absent" \/ body.amount.k = "absent"
              id == body.loan_id.n
              found == /\ id \in 1..Len(loans)
                       /\ loans[id].user_id = u
              loan == loans[id]
              reached == /\ body.mapping
                         /\ ~missing
                         /\ found
                         /\ ~non_active(loan)
              committed == reached /\ not_null(body.amount)
              code == IF ~body.mapping THEN 500          \* `field not in None`
                      ELSE IF missing THEN 400
                      ELSE IF ~found THEN 404
                      ELSE IF non_active(loan) THEN 400
                      ELSE IF ~committed THEN 500
                      ELSE 201
              message == CASE code = 500 -> "Failed to process payment"
                           [] code = 400 /\ missing -> "Missing required field"
                           [] code = 404 -> "Loan not found or unauthorized"
                           [] code = 400 /\ ~missing -> "Cannot make payment on a non-active loan"
                           [] code = 201 -> "Payment processed successfully"
          IN  /\ payments' =
                     IF committed
                     THEN Append(payments, [loan_id |-> id, amount |-> body.amount,
                                            status |-> "successful"])
                     ELSE payments
              /\ activities' =
                     IF committed
                     THEN Append(activities, [user_id |-> u, activity_type |-> "payment"])
                     ELSE activities
              /\ sms' = IF committed /\ users[u].phone_number
                        THEN send_message("payment_confirmation", u, id)
                        ELSE sms
              /\ request' = Served("make_payment", u, IF found THEN id ELSE 0,
                                   body, code, message)
    /\ now' = now + 1
    /\ UNCHANGED <<loans, riskVars, excelVars>>

(***************************************************************************)
(* admin_routes.upload_excel                                               *)
(***************************************************************************)
\* s.endswith(suffix)
ends_with(s, suffix) ==
    /\ Len(s) >= Len(suffix)
    /\ SubSeq(s, Len(s) - Len(suffix) + 1, Len(s)) = suffix

excel_suffixes == {<<".", "x", "l", "s">>, <<".", "x", "l", "s", "x">>}

\* the methods class ExcelProcessor defines
ExcelProcessorMethods ==
    {"__init__", "load_data", "get_basic_stats", "detect_data_types", "get_summary",
     "analyze_financial_data", "extract_commission_data"}

Uploads ==
    [has_file : BOOLEAN,
     filename : {<<"b", ".", "x", "l", "s", "x">>, <<"b", ".", "x", "l", "s">>,
                 <<"b", ".", "c", "s", "v">>},
     readable : BOOLEAN,     \* pd.read_excel can read the file
     saves : BOOLEAN]        \* file.save(filepath) succeeds

upload_excel ==
    /\ now < MaxRequests
    /\ \E u \in 1..Len(users), upload \in Uploads :
          LET code == IF ~is_admin(u) THEN 403
                      ELSE IF ~upload.has_file THEN 400
                      ELSE IF \A x \in excel_suffixes : ~ends_with(upload.filename, x)
                           THEN 400
                      ELSE IF ~upload.saves THEN 500              \* file.save raises
                      ELSE IF "analyze" \notin ExcelProcessorMethods
                           THEN 500                               \* AttributeError
                      ELSE 200
              message == CASE code = 403 -> "Admin access required"
                           [] code = 400 /\ ~upload.has_file -> "No file provided"
                           [] code = 400 /\ upload.has_file -> "Invalid file format"
                           [] code = 500 /\ ~upload.saves -> "Upload failed"
                           [] code = 500 /\ upload.saves ->
                                  "'ExcelProcessor' object has no attribute 'analyze'"
                           [] code = 200 -> "File uploaded and analyzed successfully"
          IN  request' = Served("upload_excel", u, 0, upload, code, message)
    /\ now' = now + 1
    /\ UNCHANGED <<loans, payments, activities, sms, riskVars, excelVars>>

InitRoutes ==
    /\ WebIdle
    /\ ExcelIdle
    /\ RiskIdle

NextRoutes ==
    \/ create_loan
    \/ update_loan
    \/ make_payment

SpecRoutes == InitRoutes /\ [][NextRoutes]_vars

NextUpload == upload_excel

SpecUpload == InitRoutes /\ [][NextUpload]_vars

RouteBefore == request.before

\* the id a request names in its body when it names one of the loans there
\* were, else 0
NamedLoan ==
    IF /\ request.body.mapping
       /\ request.body.loan_id.k = "num"
       /\ request.body.loan_id.n \in 1..Len(RouteBefore.loans)
    THEN request.body.loan_id.n
    ELSE 0

\* C27: a Payment record is only ever added by a make_payment request, one at
\* a time, for a loan that belongs to the paying user and has status 'active'
\* when the payment is recorded (loans never change owner, payments are never
\* removed); a payment request that names a loan of another status or of
\* another user is rejected and adds no Payment and no ClientActivity record.
C27_PaymentsOnlyOnOwnActiveLoans ==
    /\ Len(payments) \in {Len(RouteBefore.payments), Len(RouteBefore.payments) + 1}
    /\ SubSeq(payments, 1, Len(RouteBefore.payments)) = RouteBefore.payments
    /\ \A i \in 1..Len(RouteBefore.loans) : loans[i].user_id = RouteBefore.loans[i].user_id
    /\ \A i \in 1..Len(payments) : payments[i].loan_id \in 1..Len(loans)
    /\ Len(payments) > Len(RouteBefore.payments) =>
          LET p == payments[Len(payments)]
          IN  /\ request.op = "make_payment"
              /\ p.loan_id \in 1..Len(RouteBefore.loans)
              /\ RouteBefore.loans[p.loan_id].user_id = request.user
              /\ RouteBefore.loans[p.loan_id].status = "active"
    /\ (/\ request.op = "make_payment"
        /\ NamedLoan # 0
        /\ \/ RouteBefore.loans[NamedLoan].status # "active"
           \/ RouteBefore.loans[NamedLoan].user_id # request.user)
       => /\ request.code \in {400, 404}
          /\ payments = RouteBefore.payments
          /\ activities = RouteBefore.activities

\* a client's loan was made active and the client's payment on it is recorded
C27_Witness ==
    /\ request.op = "make_payment"
    /\ request.code = 201
    /\ Len(payments) = 1
    /\ payments[1].loan_id = 1
    /\ loans[1].status = "active"
    /\ loans[1].user_id = request.user
    /\ Len(activities) = 2

\* C28: every loan has one of the five statuses, every approved loan has
\* approved_at set, and an update_loan request with another status value is
\* rejected and leaves status, approved_at, interest_rate and term_months of
\* the loan as they were.
C28_StatusesValidAndApprovedStamped ==
    /\ \A i \in 1..Len(loans) :
          /\ loans[i].status \in {"pending", "approved", "rejected", "active", "completed"}
          /\ loans[i].status = "approved" => loans[i].approved_at # 0
    /\ (/\ request.op = "update_loan"
        /\ request.body.mapping
        /\ request.body.status.k = "text"
        /\ request.body.status.s \notin
               {"pending", "approved", "rejected", "active", "completed"})
       => /\ request.code \in {400, 403, 404}
          /\ Len(loans) = Len(RouteBefore.loans)
          /\ \A i \in 1..Len(loans) :
                /\ loans[i].status = RouteBefore.loans[i].status
                /\ loans[i].approved_at = RouteBefore.loans[i].approved_at
                /\ loans[i].interest_rate = RouteBefore.loans[i].interest_rate
                /\ loans[i].term_months = RouteBefore.loans[i].term_months

\* an approved loan, and the admin's request to make it 'cancelled' with new
\* terms: rejected, the loan as it was
C28_Witness ==
    /\ request.op = "update_loan"
    /\ request.code = 400
    /\ request.loan_id = 1
    /\ request.body.status.s = "cancelled"
    /\ request.body.interest_rate = Num(7, 1)
    /\ loans[1].status = "approved"
    /\ loans[1].approved_at # 0
    /\ loans[1].interest_rate = Num(10, 1)

\* C29: an approval notification is sent for a loan only by an update_loan
\* request that changes its status from a non-approved value to 'approved'
\* and whose change is committed: a request whose commit fails has sent none.
C29_NotificationOnlyWhenCommitted ==
    \A m \in (Len(RouteBefore.sms) + 1)..Len(sms) :
        sms[m].kind = "loan_approval" =>
            /\ request.op = "update_loan"
            /\ request.code = 200
            /\ RouteBefore.loans[sms[m].loan_id].status # "approved"
            /\ loans[sms[m].loan_id].status = "approved"

\* C30: an upload_excel request of an admin with a file named *.xls or *.xlsx
\* that can be saved and read ends with status 200 and the message 'File
\* uploaded and analyzed successfully'.
C30_UploadSucceeds ==
    (/\ request.op = "upload_excel"
     /\ is_admin(request.user)
     /\ request.body.has_file
     /\ \E x \in excel_suffixes : ends_with(request.body.filename, x)
     /\ request.body.saves
     /\ request.body.readable)
    => /\ request.code = 200
       /\ request.message = "File uploaded and analyzed successfully"

====
